---- MODULE Spec2Model ----
(***************************************************************************)
(* A model of the sajari-sdk-go client library: the marshaling layer       *)
(* (values, keys, records, filters, requests), the positional aggregate    *)
(* error (MultiError) and the transport wrappers, each operation being one *)
(* synchronous handler that builds a wire request, issues remote calls and *)
(* decodes the reply.  The remote service is an external collaborator: its *)
(* replies are chosen nondeterministically.                                *)
(***************************************************************************)
EXTENDS Integers, Sequences, FiniteSets, TLC

VARIABLES
    pc,      \* "idle": no operation running; "done": an operation has returned
    oper,    \* name of the operation that ran last
    inp,     \* its arguments
    replies, \* the replies of the remote service it consumed, in order
    calls,   \* the remote calls it issued, in order
    ret,     \* what it returned (or that it panicked)
    mem,     \* the backing array of the caller's Request.IndexQuery.Body after it
    errStr,  \* the result of calling Error() on the returned MultiError
    defaults, \* the package variable DefaultAddTransforms
    \* cmd/csv-import: one run of importCSV
    flags,   \* -workers and -batch-size, and the CSV file: its data rows and
             \* whether reading ends with an error instead of the end of file
    ipc,     \* where importCSV is
    spawned, \* workers started so far (i of the loop that starts them)
    queued,  \* rows put on the queue so far (count)
    ch,      \* the rows buffered in the channel, oldest first
    closes,  \* how many times the channel has been closed
    wg,      \* the counter of the WaitGroup
    wpc,     \* where each worker is
    batch,   \* the batch of each worker
    sends,   \* the lists each worker has passed to sendList, in order
    failures \* how many sendList calls have failed so far

libvars == <<pc, oper, inp, replies, calls, ret, mem, errStr, defaults>>
importvars == <<flags, ipc, spawned, queued, ch, closes, wg, wpc, batch, sends, failures>>
vars == <<pc, oper, inp, replies, calls, ret, mem, errStr, defaults,
          flags, ipc, spawned, queued, ch, closes, wg, wpc, batch, sends, failures>>

(***************************************************************************)
(* Bounds of the model.                                                    *)
(***************************************************************************)
MaxBatch == 2    \* longest input list of a Multi operation, longest list of a reply
MaxStatus == 3   \* longest per-item status list of a reply
MaxSuffix == 3   \* longest operator suffix given to FieldFilter

SeqsUpTo(S, n) == UNION {[1..k -> S] : k \in 0..n}

(***************************************************************************)
(* Strings that the code takes apart or puts together are sequences of     *)
(* one-character strings; opaque names are TLA+ strings.                   *)
(***************************************************************************)
Digit(d) == CASE d = 0 -> "0" [] d = 1 -> "1" [] d = 2 -> "2" [] d = 3 -> "3"
              [] d = 4 -> "4" [] d = 5 -> "5" [] d = 6 -> "6" [] d = 7 -> "7"
              [] d = 8 -> "8" [] d = 9 -> "9"

RECURSIVE FormatNat(_)
FormatNat(n) == IF n < 10 THEN <<Digit(n)>>
                ELSE Append(FormatNat(n \div 10), Digit(n % 10))

\* fmt.Sprintf("%v", n) of an integer
FormatInt(n) == IF n < 0 THEN <<"-">> \o FormatNat(0 - n) ELSE FormatNat(n)

\* fmt.Sprintf("%v", b) of a bool
FormatBool(b) == IF b THEN <<"t", "r", "u", "e">> ELSE <<"f", "a", "l", "s", "e">>

\* fmt.Sprintf("%v", f) of a float held as whole part and tenths (1.5, 2)
FormatFloat(f) == IF f.tenths = 0 THEN FormatInt(f.whole)
                  ELSE FormatInt(f.whole) \o <<".">> \o <<Digit(f.tenths)>>

(***************************************************************************)
(* Errors.  Go's nil error is NoErr.                                       *)
(***************************************************************************)
NoErr == [kind |-> "nil"]
ErrNoSuchRecord == [kind |-> "ErrNoSuchRecord"]
GrpcError(c) == [kind |-> "grpc", code |-> c]
LocalError(m) == [kind |-> "local", msg |-> m]
\* an error of the transport: the remote call itself failed
RpcError == [kind |-> "rpc"]
MultiError(errs) == [kind |-> "MultiError", errs |-> errs]

\* gRPC status codes a per-item status may carry
Codes == {"OK", "NotFound", "Internal"}

\* e.Error() of the errors a MultiError holds
ErrorText(e) == CASE e.kind = "ErrNoSuchRecord" -> "sajari: no such record"
                  [] e.kind = "grpc" -> "rpc error: code = " \o e.code
                  [] OTHER -> e.kind

multiErrorFromRecordStatusProto_dropOK(status) ==
    LET Conv(c) == IF c = "NotFound" THEN ErrNoSuchRecord ELSE GrpcError(c)
        bad == SelectSeq(status, LAMBDA c : c # "OK")
    IN  IF bad = <<>> THEN NoErr
        ELSE MultiError([i \in 1..Len(bad) |-> Conv(bad[i])])

multiErrorFromRecordStatusProto(status) ==
    LET Conv(c) == CASE c = "OK" -> NoErr
                     [] c = "NotFound" -> ErrNoSuchRecord
                     [] OTHER -> GrpcError(c)
        out == [i \in 1..Len(status) |-> Conv(status[i])]
        empty == \A i \in 1..Len(status) : status[i] = "OK"
    IN  IF empty THEN NoErr ELSE MultiError(out)

\* schema statuses: every code other than OK is wrapped, NotFound included
multiErrorFromSchemaStatusProto(status) ==
    LET Conv(c) == IF c = "OK" THEN NoErr ELSE GrpcError(c)
        out == [i \in 1..Len(status) |-> Conv(status[i])]
        empty == \A i \in 1..Len(status) : status[i] = "OK"
    IN  IF empty THEN NoErr ELSE MultiError(out)

\* MultiError.Error(): the message and the count it prints after it
MultiError_Error(me) ==
    LET idx == {i \in 1..Len(me) : me[i] # NoErr}
        n == Cardinality(idx)
        first == CHOOSE i \in idx : \A j \in idx : i <= j
        msg == IF n = 0 THEN "" ELSE ErrorText(me[first])
    IN  CASE n = 0 -> [text |-> "(0 errors)", tail |-> "none", count |-> 0]
          [] n = 1 -> [text |-> msg, tail |-> "none", count |-> 0]
          [] n = 2 -> [text |-> msg, tail |-> "(and 1 other error)", count |-> 1]
          [] OTHER -> [text |-> msg, tail |-> "(and %d other errors)", count |-> n]

(***************************************************************************)
(* Values.  A Go value x (interface{}) is [t |-> its dynamic type, v |->   *)
(* its content]; a wire value (enginepb.Value) is [k |-> "single" or       *)
(* "repeated" or "unset" (no oneof member set), s |-> its content].        *)
(***************************************************************************)
Nil == [nil |-> TRUE]

Chars_a == <<"a">>
Chars_b == <<"b">>

GoInt(n) == [t |-> "int", v |-> n]
GoString(s) == [t |-> "string", v |-> s]
GoBool(b) == [t |-> "bool", v |-> b]
GoFloat(w, d) == [t |-> "float64", v |-> [whole |-> w, tenths |-> d]]
GoTime(u) == [t |-> "time.Time", v |-> u]
GoStrings(ss) == [t |-> "[]string", v |-> ss]
GoInts(ns) == [t |-> "[]int", v |-> ns]
GoInt64s(ns) == [t |-> "[]int64", v |-> ns]
GoFloats(ns) == [t |-> "[]float64", v |-> ns]
GoBools(bs) == [t |-> "[]bool", v |-> bs]
GoTimes(us) == [t |-> "[]time.Time", v |-> us]
GoNil == [t |-> "nil", v |-> 0]

ScalarTypes == {"int", "string", "bool", "float64"}

Single(s) == [k |-> "single", s |-> s]
Repeated(ss) == [k |-> "repeated", s |-> ss]
Unset == [k |-> "unset", s |-> <<>>]

\* fmt.Sprintf("%v", x) of a scalar
Sprint(x) == CASE x.t = "int" -> FormatInt(x.v)
               [] x.t = "string" -> x.v
               [] x.t = "bool" -> FormatBool(x.v)
               [] x.t = "float64" -> FormatFloat(x.v)

pbSingleValue(x) ==
    IF x.t \in ScalarTypes
    THEN [err |-> NoErr, msg |-> Single(Sprint(x))]
    ELSE [err |-> LocalError("expected single value"), msg |-> Nil]

\* pbValueFromInterface without its time.Time case
pbValueFromInterface_noTime(x) ==
    CASE x.t \in ScalarTypes -> [err |-> NoErr, msg |-> Single(Sprint(x))]
      [] x.t = "[]string" -> [err |-> NoErr, msg |-> Repeated(x.v)]
      [] x.t \in {"[]int", "[]int64"} ->
            [err |-> NoErr,
             msg |-> Repeated([i \in 1..Len(x.v) |-> FormatInt(x.v[i])])]
      [] OTHER -> [err |-> LocalError("unsupported value"), msg |-> Nil]

pbValueFromInterface(x) ==
    CASE x.t \in ScalarTypes -> [err |-> NoErr, msg |-> Single(Sprint(x))]
      [] x.t = "time.Time" -> [err |-> NoErr, msg |-> Single(FormatInt(x.v))]
      [] x.t = "[]string" -> [err |-> NoErr, msg |-> Repeated(x.v)]
      [] x.t \in {"[]int", "[]int64"} ->
            [err |-> NoErr,
             msg |-> Repeated([i \in 1..Len(x.v) |-> FormatInt(x.v[i])])]
      [] OTHER -> [err |-> LocalError("unsupported value"), msg |-> Nil]

\* the dynamically typed value handed back to the caller: a string or a []string
valueFromProto(v) ==
    CASE v.k = "single" -> [err |-> NoErr, val |-> GoString(v.s)]
      [] v.k = "repeated" -> [err |-> NoErr, val |-> GoStrings(v.s)]
      [] OTHER -> [err |-> LocalError("unexpected type"), val |-> GoNil]

\* the loop shared by every list serialiser: the first failure is returned
\* with no message, otherwise the messages in order
FirstBad(rs) == CHOOSE i \in 1..Len(rs) :
                    /\ rs[i].err # NoErr
                    /\ \A j \in 1..(i - 1) : rs[j].err = NoErr

ProtoList(rs) ==
    IF \E i \in 1..Len(rs) : rs[i].err # NoErr
    THEN [err |-> rs[FirstBad(rs)].err, msg |-> Nil]
    ELSE [err |-> NoErr, msg |-> [i \in 1..Len(rs) |-> rs[i].msg]]

(***************************************************************************)
(* Records: a Record is a function from field names to Go values.          *)
(***************************************************************************)
protoValues_proto(p) ==
    LET rs == [f \in DOMAIN p |-> pbValueFromInterface(p[f])]
    IN  IF \E f \in DOMAIN p : rs[f].err # NoErr
        THEN [err |-> LocalError("unsupported value"), msg |-> Nil]
        ELSE [err |-> NoErr, msg |-> [f \in DOMAIN p |-> rs[f].msg]]

Record_proto(r) == protoValues_proto(r)

records_proto(rs) == ProtoList([i \in 1..Len(rs) |-> Record_proto(rs[i])])

recordFromProto(pbr) ==
    LET rs == [f \in DOMAIN pbr |-> valueFromProto(pbr[f])]
    IN  IF \E f \in DOMAIN pbr : rs[f].err # NoErr
        THEN [err |-> LocalError("unexpected type"), msg |-> Nil]
        ELSE [err |-> NoErr, msg |-> [f \in DOMAIN pbr |-> rs[f].val]]

pbRecords_records(pbrs) ==
    ProtoList([i \in 1..Len(pbrs) |-> recordFromProto(pbrs[i])])

(***************************************************************************)
(* Keys.  A *Key is nil or holds a field and a value; a wire key           *)
(* (enginepb.Key) holds a field and a wire value, or no value.             *)
(***************************************************************************)
NilKey == [field |-> "", nilp |-> TRUE, value |-> GoNil]
NewKey(field, value) == [field |-> field, nilp |-> FALSE, value |-> value]

NoValue == [k |-> "novalue", s |-> <<>>]
PbKey(field, value) == [field |-> field, value |-> value]
EmptyPbKey == PbKey("", NoValue)

Key_proto(k) ==
    IF k.nilp THEN [err |-> LocalError("empty key"), msg |-> Nil]
    ELSE LET vv == pbSingleValue(k.value)
         IN  IF vv.err # NoErr
             THEN [err |-> LocalError("error marshalling key value"), msg |-> Nil]
             ELSE [err |-> NoErr, msg |-> PbKey(k.field, vv.msg)]

keys_proto(ks) == ProtoList([i \in 1..Len(ks) |-> Key_proto(ks[i])])

\* a wire key with a field but no value makes valueFromProto read through a
\* nil pointer: the goroutine panics
keyFromProto(k) ==
    IF k.field = "" /\ k.value = NoValue
    THEN [err |-> NoErr, msg |-> NilKey, panic |-> FALSE]
    ELSE IF k.value = NoValue
    THEN [err |-> NoErr, msg |-> NilKey, panic |-> TRUE]
    ELSE LET val == valueFromProto(k.value)
         IN  IF val.err # NoErr
             THEN [err |-> val.err, msg |-> NilKey, panic |-> FALSE]
             ELSE [err |-> NoErr, msg |-> NewKey(k.field, val.val), panic |-> FALSE]

\* pbKeys.keys(): keys decoded in order up to the first that fails or panics
pbKeys_keys(pbks) ==
    LET rs == [i \in 1..Len(pbks) |-> keyFromProto(pbks[i])]
        stop == {i \in 1..Len(pbks) : rs[i].err # NoErr \/ rs[i].panic}
        first == CHOOSE i \in stop : \A j \in stop : i <= j
    IN  IF stop = {}
        THEN [err |-> NoErr, msg |-> [i \in 1..Len(pbks) |-> rs[i].msg], panic |-> FALSE]
        ELSE [err |-> rs[first].err, msg |-> Nil, panic |-> rs[first].panic]

(***************************************************************************)
(* The client, call contexts and remote calls.                             *)
(***************************************************************************)
\* the Client the handles are bound to (sajari.New)
Client == [Project |-> "proj", Collection |-> "coll"]

\* a context.Context, as far as its outgoing metadata goes
Background == [hasmd |-> FALSE, project |-> "", collection |-> ""]
\* a caller's context that already carries some other outgoing metadata
ForeignCtx == [hasmd |-> TRUE, project |-> "other", collection |-> "other"]
CallerCtxs == {Background, ForeignCtx}

\* internal.NewContext: metadata.NewOutgoingContext replaces the outgoing metadata
NewContext(ctx, project, collection) ==
    [hasmd |-> TRUE, project |-> project, collection |-> collection]

newContext(c, ctx) == NewContext(ctx, c.Project, c.Collection)

\* one remote call: the RPC method, the context and the request handed to it
Call(method, ctx, req) == [method |-> method, ctx |-> ctx, req |-> req]

\* a reply of the remote service: a transport error, or a response message
Reply(msg) == [err |-> NoErr, msg |-> msg]
FailedReply == [err |-> RpcError, msg |-> Nil]

\* what a handler hands back: built says the wire request was built,
\* mem the caller's backing array it may have written to and defs the
\* package variable DefaultAddTransforms as it leaves it
Ret(built, cs, val, err) ==
    [built |-> built, calls |-> cs, val |-> val, err |-> err, panic |-> FALSE,
     mem |-> <<>>, defs |-> defaults]
Panic(built, cs) ==
    [built |-> built, calls |-> cs, val |-> Nil, err |-> NoErr, panic |-> TRUE,
     mem |-> <<>>, defs |-> defaults]
\* the outcome o of a handler that left the caller's backing array as arr
Wrote(o, arr) == [o EXCEPT !.mem = arr]

\* Go slices handed back: nil, or a list
NilList == [isnil |-> TRUE, items |-> <<>>]
List(items) == [isnil |-> FALSE, items |-> items]
BoolVal(b) == [b |-> b]

IsMultiError(e) == e.kind = "MultiError"

\* Rest applied to the outcome of a call that is made once
Then(outcome, Rest(_)) == CHOOSE x \in {Rest(m) : m \in {outcome}} : TRUE

(***************************************************************************)
(* The record store (record.go).                                           *)
(***************************************************************************)
SplitStopStemIndexedFieldsTranform == "split-stop-stem-indexed-fields"
StopStemTransform == "stop-stem"
SplitIndexedFieldsTransform == "split-indexed-fields"

DefaultAddTransforms == <<SplitStopStemIndexedFieldsTranform>>

\* an AddMulti that appends the caller's transforms to the package variable
AddMulti_appendToDefaults(c, ctx, rs, ts, reply) ==
    LET pbrs == records_proto(rs)
        tsx == defaults \o ts
        call == Call("Store.Add", newContext(c, ctx),
                     [records |-> pbrs.msg, transforms |-> tsx])
        keys == pbKeys_keys(reply.msg.keys)
    IN  IF pbrs.err # NoErr THEN Ret(FALSE, <<>>, NilList, pbrs.err)
        ELSE [(IF reply.err # NoErr THEN Ret(TRUE, <<call>>, NilList, reply.err)
               ELSE IF keys.panic THEN Panic(TRUE, <<call>>)
               ELSE IF keys.err # NoErr THEN Ret(TRUE, <<call>>, NilList, keys.err)
               ELSE Ret(TRUE, <<call>>, List(keys.msg),
                        multiErrorFromRecordStatusProto(reply.msg.status)))
              EXCEPT !.defs = tsx]

\* append(ts, DefaultAddTransforms...) reads the package variable and
\* writes the copy behind ts
AddMulti(c, ctx, rs, ts, reply) ==
    LET pbrs == records_proto(rs)
        tsx == IF Len(ts) = 0 THEN ts \o defaults ELSE ts
        call == Call("Store.Add", newContext(c, ctx),
                     [records |-> pbrs.msg, transforms |-> tsx])
        keys == pbKeys_keys(reply.msg.keys)
    IN  IF pbrs.err # NoErr THEN Ret(FALSE, <<>>, NilList, pbrs.err)
        ELSE IF reply.err # NoErr THEN Ret(TRUE, <<call>>, NilList, reply.err)
        ELSE IF keys.panic THEN Panic(TRUE, <<call>>)
        ELSE IF keys.err # NoErr THEN Ret(TRUE, <<call>>, NilList, keys.err)
        ELSE Ret(TRUE, <<call>>, List(keys.msg),
                 multiErrorFromRecordStatusProto(reply.msg.status))

Add_keepMultiError(c, ctx, r, ts, reply) ==
    Then(AddMulti(c, ctx, <<r>>, ts, reply),
         LAMBDA m :
         IF m.panic THEN m
         ELSE IF m.err # NoErr THEN Ret(m.built, m.calls, NilKey, m.err)
         ELSE IF Len(m.val.items) = 0 THEN Panic(m.built, m.calls)
         ELSE Ret(m.built, m.calls, m.val.items[1], NoErr))

Add(c, ctx, r, ts, reply) ==
    Then(AddMulti(c, ctx, <<r>>, ts, reply),
         LAMBDA m :
         IF m.panic THEN m
         ELSE IF m.err # NoErr
         THEN IF IsMultiError(m.err)
              THEN Ret(m.built, m.calls, NilKey, m.err.errs[1])
              ELSE Ret(m.built, m.calls, NilKey, m.err)
         \* ks[0] of an empty list: index out of range
         ELSE IF Len(m.val.items) = 0 THEN Panic(m.built, m.calls)
         ELSE Ret(m.built, m.calls, m.val.items[1], NoErr))

\* a field mutation made by SetField(field, value)
SetField(field, value) == [field |-> field, value |-> value]

setField_proto(s) ==
    LET v == pbValueFromInterface(s.value)
    IN  IF v.err # NoErr THEN [err |-> v.err, msg |-> Nil]
        ELSE [err |-> NoErr, msg |-> [field |-> s.field, set |-> v.msg]]

fieldMutations_proto(fms) ==
    ProtoList([i \in 1..Len(fms) |-> setField_proto(fms[i])])

RecordMutation(k, fms) == [Key |-> k, FieldMutations |-> fms]

RecordMutation_proto(m) ==
    LET k == Key_proto(m.Key)
        fms == fieldMutations_proto(m.FieldMutations)
    IN  IF k.err # NoErr THEN [err |-> k.err, msg |-> Nil]
        ELSE IF fms.err # NoErr THEN [err |-> fms.err, msg |-> Nil]
        ELSE [err |-> NoErr, msg |-> [key |-> k.msg, fieldMutations |-> fms.msg]]

recordMutations_proto(rms) ==
    ProtoList([i \in 1..Len(rms) |-> RecordMutation_proto(rms[i])])

MutateMulti(c, ctx, rms, reply) ==
    LET rmspb == recordMutations_proto(rms)
        call == Call("Store.Mutate", newContext(c, ctx),
                     [recordMutations |-> rmspb.msg])
    IN  IF rmspb.err # NoErr THEN Ret(FALSE, <<>>, Nil, rmspb.err)
        ELSE IF reply.err # NoErr THEN Ret(TRUE, <<call>>, Nil, reply.err)
        ELSE Ret(TRUE, <<call>>, Nil,
                 multiErrorFromRecordStatusProto(reply.msg.status))

Mutate(c, ctx, k, m, reply) ==
    Then(MutateMulti(c, ctx, <<RecordMutation(k, m)>>, reply),
         LAMBDA r :
         IF r.err # NoErr /\ IsMultiError(r.err)
         THEN Ret(r.built, r.calls, Nil, r.err.errs[1])
         ELSE r)

DeleteMulti(c, ctx, ks, reply) ==
    LET pbks == keys_proto(ks)
        call == Call("Store.Delete", newContext(c, ctx), [keys |-> pbks.msg])
    IN  IF pbks.err # NoErr THEN Ret(FALSE, <<>>, Nil, pbks.err)
        ELSE IF reply.err # NoErr THEN Ret(TRUE, <<call>>, Nil, reply.err)
        ELSE Ret(TRUE, <<call>>, Nil,
                 multiErrorFromRecordStatusProto(reply.msg.status))

Delete(c, ctx, k, reply) ==
    Then(DeleteMulti(c, ctx, <<k>>, reply),
         LAMBDA r :
         IF r.err # NoErr /\ IsMultiError(r.err)
         THEN Ret(r.built, r.calls, Nil, r.err.errs[1])
         ELSE r)

GetMulti(c, ctx, k, reply) ==
    LET pbks == keys_proto(k)
        call == Call("Store.Get", newContext(c, ctx), [keys |-> pbks.msg])
        docs == pbRecords_records(reply.msg.records)
    IN  IF pbks.err # NoErr THEN Ret(FALSE, <<>>, NilList, pbks.err)
        ELSE IF reply.err # NoErr THEN Ret(TRUE, <<call>>, NilList, reply.err)
        ELSE IF docs.err # NoErr THEN Ret(TRUE, <<call>>, NilList, docs.err)
        ELSE Ret(TRUE, <<call>>, List(docs.msg),
                 multiErrorFromRecordStatusProto(reply.msg.status))

\* a nil Record (a nil map)
NilRecord == [isnil |-> TRUE, values |-> <<>>]

Get(c, ctx, k, reply) ==
    Then(GetMulti(c, ctx, <<k>>, reply),
         LAMBDA m :
         IF m.err # NoErr
         THEN IF IsMultiError(m.err)
              THEN Ret(m.built, m.calls, NilRecord, m.err.errs[1])
              ELSE Ret(m.built, m.calls, NilRecord, m.err)
         \* resp[0] of an empty list: index out of range
         ELSE IF Len(m.val.items) = 0 THEN Panic(m.built, m.calls)
         ELSE Ret(m.built, m.calls, [isnil |-> FALSE, values |-> m.val.items[1]], NoErr))

\* an ExistsMulti that converts the statuses as the other record
\* operations do: NotFound is an error
ExistsMulti_notFoundIsError(c, ctx, k, reply) ==
    LET pbks == keys_proto(k)
        call == Call("Store.Exists", newContext(c, ctx), [keys |-> pbks.msg])
        status == reply.msg.status
        me == multiErrorFromRecordStatusProto(status)
    IN  IF pbks.err # NoErr THEN Ret(FALSE, <<>>, NilList, pbks.err)
        ELSE IF reply.err # NoErr THEN Ret(TRUE, <<call>>, NilList, reply.err)
        ELSE IF me = NoErr THEN Ret(TRUE, <<call>>, List([i \in 1..Len(status) |-> TRUE]), NoErr)
        ELSE Ret(TRUE, <<call>>, NilList, me)

ExistsMulti(c, ctx, k, reply) ==
    LET pbks == keys_proto(k)
        call == Call("Store.Exists", newContext(c, ctx), [keys |-> pbks.msg])
        status == reply.msg.status
        known == SelectSeq(status, LAMBDA s : s \in {"OK", "NotFound"})
        out == [i \in 1..Len(known) |-> known[i] = "OK"]
        errs == [i \in 1..Len(status) |->
                    IF status[i] \in {"OK", "NotFound"} THEN NoErr
                    ELSE GrpcError(status[i])]
        empty == \A i \in 1..Len(status) : status[i] \in {"OK", "NotFound"}
    IN  IF pbks.err # NoErr THEN Ret(FALSE, <<>>, NilList, pbks.err)
        ELSE IF reply.err # NoErr THEN Ret(TRUE, <<call>>, NilList, reply.err)
        ELSE IF empty THEN Ret(TRUE, <<call>>, List(out), NoErr)
        ELSE Ret(TRUE, <<call>>, NilList, MultiError(errs))

Exists(c, ctx, k, reply) ==
    Then(ExistsMulti(c, ctx, <<k>>, reply),
         LAMBDA m :
         IF m.err # NoErr
         THEN IF IsMultiError(m.err)
              THEN Ret(m.built, m.calls, BoolVal(FALSE), m.err.errs[1])
              ELSE Ret(m.built, m.calls, BoolVal(FALSE), m.err)
         \* resp[0] of an empty list: index out of range
         ELSE IF Len(m.val.items) = 0 THEN Panic(m.built, m.calls)
         ELSE Ret(m.built, m.calls, BoolVal(m.val.items[1]), NoErr))

(***************************************************************************)
(* Filters.                                                                *)
(***************************************************************************)
\* the cutset of strings.TrimRight in FieldFilter: " <>=!~^$"
Cutset == {" ", "<", ">", "=", "!", "~", "^", "$"}

RECURSIVE TrimRight(_, _)
TrimRight(s, cut) ==
    IF s = <<>> THEN s
    ELSE IF s[Len(s)] \in cut THEN TrimRight(SubSeq(s, 1, Len(s) - 1), cut)
    ELSE s

RECURSIVE TrimLeft(_, _)
TrimLeft(s, cut) ==
    IF s = <<>> THEN s
    ELSE IF s[1] \in cut THEN TrimLeft(SubSeq(s, 2, Len(s)), cut)
    ELSE s

\* strings.TrimSpace: the space is the only white space of the model's strings
TrimSpace(s) == TrimRight(TrimLeft(s, {" "}), {" "})

FieldFilter_noTrimSpace(fieldOp, value) ==
    LET field == TrimRight(fieldOp, Cutset)
    IN  [kind |-> "field", field |-> field,
         op |-> SubSeq(fieldOp, Len(field) + 1, Len(fieldOp)),
         value |-> value]

FieldFilter(fieldOp, value) ==
    LET field == TrimRight(fieldOp, Cutset)
    IN  [kind |-> "field", field |-> field,
         op |-> TrimSpace(SubSeq(fieldOp, Len(field) + 1, Len(fieldOp))),
         value |-> value]

\* what every proto() of the query model hands back: a message, an error, or
\* a panic (a method called through a nil interface)
Msg(m) == [err |-> NoErr, msg |-> m, panic |-> FALSE]
Fail(e) == [err |-> e, msg |-> Nil, panic |-> FALSE]
Crash == [err |-> NoErr, msg |-> Nil, panic |-> TRUE]

fieldFilter_proto_anyValue(ff) ==
    LET op == CASE ff.op = <<"=">> -> "EQUAL_TO"
                [] ff.op = <<"!", "=">> -> "NOT_EQUAL_TO"
                [] ff.op = <<">">> -> "GREATER_THAN"
                [] ff.op = <<">", "=">> -> "GREATER_THAN_OR_EQUAL_TO"
                [] ff.op = <<"<">> -> "LESS_THAN"
                [] ff.op = <<"<", "=">> -> "LESS_THAN_OR_EQUAL_TO"
                [] ff.op = <<"~">> -> "CONTAINS"
                [] ff.op = <<"!", "~">> -> "DOES_NOT_CONTAIN"
                [] ff.op = <<"^">> -> "HAS_PREFIX"
                [] ff.op = <<"$">> -> "HAS_SUFFIX"
                [] OTHER -> "invalid"
        value == pbValueFromInterface(ff.value)
    IN  IF op = "invalid" THEN Fail(LocalError("invalid field filter operator"))
        ELSE Msg([kind |-> "field", field |-> ff.field, operator |-> op,
                  value |-> IF value.err # NoErr THEN Unset ELSE value.msg])

fieldFilter_proto(ff) ==
    LET op == CASE ff.op = <<"=">> -> "EQUAL_TO"
                [] ff.op = <<"!", "=">> -> "NOT_EQUAL_TO"
                [] ff.op = <<">">> -> "GREATER_THAN"
                [] ff.op = <<">", "=">> -> "GREATER_THAN_OR_EQUAL_TO"
                [] ff.op = <<"<">> -> "LESS_THAN"
                [] ff.op = <<"<", "=">> -> "LESS_THAN_OR_EQUAL_TO"
                [] ff.op = <<"~">> -> "CONTAINS"
                [] ff.op = <<"!", "~">> -> "DOES_NOT_CONTAIN"
                [] ff.op = <<"^">> -> "HAS_PREFIX"
                [] ff.op = <<"$">> -> "HAS_SUFFIX"
                [] OTHER -> "invalid"
        value == pbValueFromInterface(ff.value)
    IN  IF op = "invalid" THEN Fail(LocalError("invalid field filter operator"))
        ELSE IF value.err # NoErr THEN Fail(LocalError("error marshalling value"))
        ELSE Msg([kind |-> "field", field |-> ff.field, operator |-> op,
                  value |-> value.msg])

combFilterOpAll == 0
combFilterOpAny == 1
combFilterOpOne == 2
combFilterOpNone == 3

newCombFilter(o, filters) == [kind |-> "comb", op |-> o, filters |-> filters]
AllFilters(filters) == newCombFilter(combFilterOpAll, filters)
AnyFilter(filters) == newCombFilter(combFilterOpAny, filters)
OneOfFilters(filters) == newCombFilter(combFilterOpOne, filters)
NoneOfFilters(filters) == newCombFilter(combFilterOpNone, filters)

GeoFilterInside == 0
GeoFilterOutside == 1

GeoFilter(region) == [kind |-> "geo", region |-> region]

geoFilter_proto(gb) ==
    CASE gb.region = GeoFilterInside -> Msg([kind |-> "geo", region |-> "INSIDE"])
      [] gb.region = GeoFilterOutside -> Msg([kind |-> "geo", region |-> "OUTSIDE"])
      [] OTHER -> Fail(LocalError("geo filter: invalid region"))

\* a Filter interface holding nothing
NilFilter == [kind |-> "nil"]

\* the children of a combinator in order, up to the first that fails or panics
CombChildren(rs, o) ==
    LET stop == {i \in 1..Len(rs) : rs[i].err # NoErr \/ rs[i].panic}
        first == CHOOSE i \in stop : \A j \in stop : i <= j
    IN  IF stop = {}
        THEN Msg([kind |-> "comb", operator |-> o,
                  filters |-> [i \in 1..Len(rs) |-> rs[i].msg]])
        ELSE rs[first]

RECURSIVE Filter_proto(_)
\* the wire filters ms with the children of every combinator among them
\* lifted into its place
RECURSIVE Splice(_)
Splice(ms) ==
    IF ms = <<>> THEN <<>>
    ELSE (IF Head(ms).kind = "comb" THEN Head(ms).filters ELSE <<Head(ms)>>)
         \o Splice(Tail(ms))

\* a combinator serialiser that flattens nested combinators into the parent
combFilter_proto_flat(cf) ==
    LET o == CASE cf.op = combFilterOpAll -> "ALL"
               [] cf.op = combFilterOpAny -> "ANY"
               [] cf.op = combFilterOpOne -> "ONE"
               [] cf.op = combFilterOpNone -> "NONE"
               [] OTHER -> "invalid"
        out == CombChildren([i \in 1..Len(cf.filters) |-> Filter_proto(cf.filters[i])], o)
    IN  IF o = "invalid" THEN Fail(LocalError("invalid combinator operator"))
        ELSE IF out.err # NoErr \/ out.panic THEN out
        ELSE Msg([out.msg EXCEPT !.filters = Splice(out.msg.filters)])

combFilter_proto(cf) ==
    LET o == CASE cf.op = combFilterOpAll -> "ALL"
               [] cf.op = combFilterOpAny -> "ANY"
               [] cf.op = combFilterOpOne -> "ONE"
               [] cf.op = combFilterOpNone -> "NONE"
               [] OTHER -> "invalid"
    IN  IF o = "invalid" THEN Fail(LocalError("invalid combinator operator"))
        ELSE CombChildren([i \in 1..Len(cf.filters) |-> Filter_proto(cf.filters[i])], o)

\* f.proto() through the Filter interface
Filter_proto(f) ==
    CASE f.kind = "field" -> fieldFilter_proto(f)
      [] f.kind = "comb" -> combFilter_proto(f)
      [] f.kind = "geo" -> geoFilter_proto(f)
      [] OTHER -> Crash

(***************************************************************************)
(* Search requests.                                                        *)
(***************************************************************************)
TrackingNone == ""
TrackingClick == "CLICK"
TrackingPosNeg == "POS_NEG"

TrackingType_proto(t) ==
    CASE t = TrackingNone -> [err |-> NoErr, msg |-> "NONE"]
      [] t = TrackingClick -> [err |-> NoErr, msg |-> "CLICK"]
      [] t = TrackingPosNeg -> [err |-> NoErr, msg |-> "POS_NEG"]
      [] OTHER -> [err |-> LocalError("unknown TrackingType"), msg |-> "NONE"]

Tracking_proto(t) ==
    LET pbType == TrackingType_proto(t.Type)
    IN  IF pbType.err # NoErr THEN Fail(pbType.err)
        ELSE Msg([type |-> pbType.msg, queryId |-> t.QueryID])

\* the loop shared by the list serialisers of the query model: the items are
\* serialised in order; the first that fails or panics ends the loop
ProtoSeq(rs) ==
    Then(rs, LAMBDA xs :
         LET stop == {i \in 1..Len(xs) : xs[i].err # NoErr \/ xs[i].panic}
             first == CHOOSE i \in stop : \A j \in stop : i <= j
         IN  IF stop = {} THEN Msg([i \in 1..Len(xs) |-> xs[i].msg])
             ELSE IF xs[first].panic THEN Crash
             ELSE Fail(xs[first].err))

\* a message made of the message of a part that was serialised first
Wrap(part, Make(_)) ==
    Then(part, LAMBDA p :
         IF p.panic THEN Crash
         ELSE IF p.err # NoErr THEN Fail(p.err)
         ELSE Msg(Make(p.msg)))

(***************************************************************************)
(* Field boosts, feature boosts and instance boosts.                       *)
(***************************************************************************)
\* a FieldBoost interface holding nothing
NilBoost == [kind |-> "nil"]

FilterFieldBoost(f, value) == [kind |-> "filter", filter |-> f, value |-> value]

filterFieldBoost_proto(fb) ==
    Wrap(Filter_proto(fb.filter),
         LAMBDA pf : [kind |-> "filter", filter |-> pf, value |-> fb.value])

IntervalPoint(point, value) == [Point |-> point, Value |-> value]

IntervalFieldBoost(field, values) ==
    [kind |-> "interval", field |-> field, values |-> values]

\* a serialiser that sends a precomputed curve: between every two
\* consecutive points it adds the point halfway
pointValues_proto_curve(pvs) ==
    [i \in 1..(IF Len(pvs) = 0 THEN 0 ELSE 2 * Len(pvs) - 1) |->
        IF i % 2 = 1
        THEN [point |-> pvs[(i + 1) \div 2].Point, value |-> pvs[(i + 1) \div 2].Value]
        ELSE [point |-> (pvs[i \div 2].Point + pvs[i \div 2 + 1].Point) \div 2,
              value |-> (pvs[i \div 2].Value + pvs[i \div 2 + 1].Value) \div 2]]

pointValues_proto(pvs) ==
    [i \in 1..Len(pvs) |-> [point |-> pvs[i].Point, value |-> pvs[i].Value]]

intervalFieldBoost_proto(db) ==
    Msg([kind |-> "interval", field |-> db.field,
         points |-> pointValues_proto(db.values)])

ElementFieldBoost(field, elts) == [kind |-> "element", field |-> field, elts |-> elts]

elementFieldBoost_proto(eb) ==
    Msg([kind |-> "element", field |-> eb.field, elts |-> eb.elts])

TextFieldBoost(field, text) == [kind |-> "text", field |-> field, text |-> text]

textFieldBoost_proto(tb) ==
    Msg([kind |-> "text", field |-> tb.field, text |-> tb.text])

\* b.proto() through the FieldBoost interface
FieldBoost_proto(b) ==
    CASE b.kind = "filter" -> filterFieldBoost_proto(b)
      [] b.kind = "interval" -> intervalFieldBoost_proto(b)
      [] b.kind = "element" -> elementFieldBoost_proto(b)
      [] b.kind = "text" -> textFieldBoost_proto(b)
      [] OTHER -> Crash

fieldBoosts_proto(bs) == ProtoSeq([i \in 1..Len(bs) |-> FieldBoost_proto(bs[i])])

NewFeatureFieldBoost(b, value) == [boost |-> b, value |-> value]

FeatureFieldBoost_proto(ab) ==
    Wrap(FieldBoost_proto(ab.boost),
         LAMBDA pbb : [fieldBoost |-> pbb, value |-> ab.value])

featureFieldBoosts_proto(bs) ==
    ProtoSeq([i \in 1..Len(bs) |-> FeatureFieldBoost_proto(bs[i])])

\* an InstanceBoost interface holding nothing
NilInstanceBoost == [kind |-> "nil"]

FieldInstanceBoost(field, value) == [kind |-> "field", field |-> field, value |-> value]

fieldInstanceBoost_proto(fb) ==
    Msg([kind |-> "field", field |-> fb.field, value |-> fb.value])

ScoreInstanceBoost(minCount, threshold) ==
    [kind |-> "score", minCount |-> minCount, threshold |-> threshold]

scoreInstanceBoost_proto(sib) ==
    Msg([kind |-> "score", minCount |-> sib.minCount, threshold |-> sib.threshold])

InstanceBoost_proto(b) ==
    CASE b.kind = "field" -> fieldInstanceBoost_proto(b)
      [] b.kind = "score" -> scoreInstanceBoost_proto(b)
      [] OTHER -> Crash

instanceBoosts_proto(bs) ==
    ProtoSeq([i \in 1..Len(bs) |-> InstanceBoost_proto(bs[i])])

(***************************************************************************)
(* Sorts.                                                                  *)
(***************************************************************************)
\* a Sort interface holding nothing
NilSort == [kind |-> "nil"]

SortByField(s) == [kind |-> "field", s |-> s]

\* a leading "-" is cut off and makes the order descending
SortByField_proto(s) ==
    IF s.s # <<>> /\ s.s[1] = "-"
    THEN Msg([field |-> SubSeq(s.s, 2, Len(s.s)), order |-> "DESC"])
    ELSE Msg([field |-> s.s, order |-> "ASC"])

Sort_proto(s) == IF s.kind = "field" THEN SortByField_proto(s) ELSE Crash

sorts_proto(ss) == ProtoSeq([i \in 1..Len(ss) |-> Sort_proto(ss[i])])

(***************************************************************************)
(* Aggregates.  A Go map is [isnil, order, items]: items maps the keys to  *)
(* their values and order is the order in which a range loop over the map  *)
(* visits the keys in this run.                                            *)
(***************************************************************************)
\* an Aggregate interface holding nothing
NilAggregate == [kind |-> "nil"]

CountAggregate(field) == [kind |-> "count", field |-> field]

countAggregate_proto(c) == Msg([kind |-> "count", field |-> c.field])

Bucket(name, filter) == [Name |-> name, Filter |-> filter]

\* b.Filter.proto() is called whether or not the bucket has a filter
Bucket_proto(b) ==
    Wrap(Filter_proto(b.Filter), LAMBDA filter : [name |-> b.Name, filter |-> filter])

BucketAggregate(bs) == [kind |-> "bucket", buckets |-> bs]

bucketAggregate_proto(ba) ==
    Wrap(ProtoSeq([i \in 1..Len(ba.buckets) |-> Bucket_proto(ba.buckets[i])]),
         LAMBDA pbuckets : [kind |-> "bucket", buckets |-> pbuckets])

MaxAggregate(field) == [kind |-> "metric", type |-> "MAX", field |-> field]
MinAggregate(field) == [kind |-> "metric", type |-> "MIN", field |-> field]
AvgAggregate(field) == [kind |-> "metric", type |-> "AVG", field |-> field]
SumAggregate(field) == [kind |-> "metric", type |-> "SUM", field |-> field]

metricAggregateProto(field, ty) == Msg([kind |-> "metric", field |-> field, type |-> ty])

\* v.proto() through the Aggregate interface
Aggregate_proto(a) ==
    CASE a.kind = "count" -> countAggregate_proto(a)
      [] a.kind = "bucket" -> bucketAggregate_proto(a)
      [] a.kind = "metric" -> metricAggregateProto(a.field, a.type)
      [] OTHER -> Crash

NilMap == [isnil |-> TRUE, order |-> <<>>, items |-> <<>>]
Map(order, items) == [isnil |-> FALSE, order |-> order, items |-> items]

aggregates_proto(as) ==
    Wrap(ProtoSeq([i \in 1..Len(as.order) |-> Aggregate_proto(as.items[as.order[i]])]),
         LAMBDA ms : [k \in DOMAIN as.items |->
                         ms[CHOOSE i \in 1..Len(as.order) : as.order[i] = k]])

\* an aggregate of a response: counts, buckets, a metric, or no member set
processAggregatesResponse(pbResp) ==
    [k \in {j \in DOMAIN pbResp : pbResp[j].kind \in {"count", "buckets", "metric"}} |->
        CASE pbResp[k].kind = "count" -> [kind |-> "CountResponse",
                                          counts |-> pbResp[k].counts]
          [] pbResp[k].kind = "buckets" -> [kind |-> "BucketsResponse",
                                            buckets |-> pbResp[k].buckets]
          [] pbResp[k].kind = "metric" -> [kind |-> "float64",
                                           value |-> pbResp[k].value]]

(***************************************************************************)
(* Index and feature queries.  A Go slice is [arr, len]: arr is its        *)
(* backing array from the slice's first element on (its length is the      *)
(* capacity of the slice) and len the length of the slice.                 *)
(***************************************************************************)
Slice(arr, n) == [arr |-> arr, len |-> n]
NilSlice == Slice(<<>>, 0)
Elems(s) == SubSeq(s.arr, 1, s.len)

\* append(s, x): x is written into the backing array when there is room
\* after the slice, otherwise the elements move to a new array
append(s, x) ==
    IF s.len < Len(s.arr)
    THEN Slice([s.arr EXCEPT ![s.len + 1] = x], s.len + 1)
    ELSE Slice(Append(Elems(s), x), s.len + 1)

Body(text, weight) == [Text |-> text, Weight |-> weight]
Body_proto(w) == [text |-> w.Text, weight |-> w.Weight]

Term(value, field) == [Value |-> value, Field |-> field]
Term_proto(t) == [value |-> t.Value, field |-> t.Field]
terms_proto(ts) == [i \in 1..Len(ts) |-> Term_proto(ts[i])]

\* the slice wb of IndexQuery.proto(): q.Body, with the text appended
IndexQuery_wb(q) == IF q.Text # "" THEN append(q.Body, Body(q.Text, 1)) ELSE q.Body

\* the backing array of q.Body as IndexQuery.proto() leaves it
IndexQuery_bodyArray(q) ==
    IF q.Text # "" /\ q.Body.len < Len(q.Body.arr) THEN IndexQuery_wb(q).arr
    ELSE q.Body.arr

IndexQuery_proto(q) ==
    Wrap(ProtoSeq(<<IF q.FieldBoosts.isnil THEN Msg(<<>>)
                    ELSE fieldBoosts_proto(q.FieldBoosts.items),
                    IF q.InstanceBoosts.isnil THEN Msg(<<>>)
                    ELSE instanceBoosts_proto(q.InstanceBoosts.items)>>),
         LAMBDA boosts :
             [body |-> [i \in 1..IndexQuery_wb(q).len |->
                           Body_proto(IndexQuery_wb(q).arr[i])],
              terms |-> terms_proto(q.Terms),
              fieldBoosts |-> boosts[1],
              instanceBoosts |-> boosts[2]])

FeatureQuery_proto(q) ==
    Wrap(IF q.FieldBoosts.isnil THEN Msg(<<>>)
         ELSE featureFieldBoosts_proto(q.FieldBoosts.items),
         LAMBDA afbs : [fieldBoosts |-> afbs])

\* Request.proto(): index query, feature query, filter, sort, aggregates and
\* transforms are serialised in this order, the tracking last
Request_proto(r) ==
    Wrap(ProtoSeq(<<IndexQuery_proto(r.IndexQuery),
                    FeatureQuery_proto(r.FeatureQuery),
                    IF r.Filter # NilFilter THEN Filter_proto(r.Filter) ELSE Msg(Nil),
                    IF r.Sort.isnil THEN Msg(<<>>) ELSE sorts_proto(r.Sort.items),
                    IF r.Aggregates.isnil THEN Msg(Nil)
                    ELSE aggregates_proto(r.Aggregates),
                    Tracking_proto(r.Tracking)>>),
         LAMBDA p :
             [tracking |-> p[6],
              searchRequest |->
                  [offset |-> r.Offset, limit |-> r.Limit,
                   fields |-> r.Fields, indexQuery |-> p[1], featureQuery |-> p[2],
                   filter |-> p[3], sort |-> p[4], aggregates |-> p[5],
                   transforms |-> r.Transforms]])

\* the backing array of r.IndexQuery.Body after r.proto(): the index query
\* is serialised first, whatever becomes of the rest
Request_bodyArray(r) == IndexQuery_bodyArray(r.IndexQuery)

(***************************************************************************)
(* Query, Pipeline and the learning path.                                  *)
(***************************************************************************)
NilTokens == [isnil |-> TRUE]

\* the Tokens map of a result, from the token at its position
TokenMap(t) ==
    CASE t.kind = "click" -> [isnil |-> FALSE, click |-> t.token]
      [] t.kind = "posneg" -> [isnil |-> FALSE, pos |-> t.pos, neg |-> t.neg]
      [] OTHER -> NilTokens

\* a decoder that hands the tokens out from the last to the first
processResponse_tokensFromEnd(pbResp, tokens) ==
    LET n == Len(pbResp.results)
        vals == [i \in 1..n |-> recordFromProto(pbResp.results[i].values)]
        results == [i \in 1..n |->
                       [Values |-> vals[i].msg,
                        Score |-> pbResp.results[i].score,
                        Tokens |-> IF Len(tokens) > i - 1 THEN TokenMap(tokens[Len(tokens) + 1 - i])
                                   ELSE NilTokens]]
    IN  IF pbResp = Nil THEN Crash
        ELSE IF \E i \in 1..n : vals[i].err # NoErr
        THEN Fail(vals[FirstBad(vals)].err)
        ELSE IF ~pbResp.timeOK THEN Fail(LocalError("time: invalid duration"))
        ELSE Msg([Results |-> results, TotalResults |-> pbResp.totalResults,
                  Aggregates |-> IF pbResp.aggregates = Nil THEN Nil
                                 ELSE processAggregatesResponse(pbResp.aggregates)])

\* processResponse: pbResp is Nil when the reply carries no SearchResponse
processResponse(pbResp, tokens) ==
    LET n == Len(pbResp.results)
        vals == [i \in 1..n |-> recordFromProto(pbResp.results[i].values)]
        results == [i \in 1..n |->
                       [Values |-> vals[i].msg,
                        Score |-> pbResp.results[i].score,
                        Tokens |-> IF Len(tokens) > i - 1 THEN TokenMap(tokens[i])
                                   ELSE NilTokens]]
    IN  IF pbResp = Nil THEN Crash
        ELSE IF \E i \in 1..n : vals[i].err # NoErr
        THEN Fail(vals[FirstBad(vals)].err)
        ELSE IF ~pbResp.timeOK THEN Fail(LocalError("time: invalid duration"))
        ELSE Msg([Results |-> results, TotalResults |-> pbResp.totalResults,
                  Aggregates |-> IF pbResp.aggregates = Nil THEN Nil
                                 ELSE processAggregatesResponse(pbResp.aggregates)])

NilResults == [isnil |-> TRUE]

Query_Search_retry(c, ctx, r, reply) ==
    LET pr == Request_proto(r)
        call == Call("Query.Search", newContext(c, ctx), pr.msg)
        res == processResponse(reply.msg.searchResponse, reply.msg.tokens)
    IN  Wrote(
        IF pr.panic THEN Panic(FALSE, <<>>)
        ELSE IF pr.err # NoErr THEN Ret(FALSE, <<>>, NilResults, pr.err)
        ELSE IF reply.err # NoErr THEN Ret(TRUE, <<call, call>>, NilResults, reply.err)
        ELSE IF res.panic THEN Panic(TRUE, <<call>>)
        ELSE IF res.err # NoErr THEN Ret(TRUE, <<call>>, NilResults, res.err)
        ELSE Ret(TRUE, <<call>>, res.msg, NoErr),
        Request_bodyArray(r))

Query_Search(c, ctx, r, reply) ==
    LET pr == Request_proto(r)
        call == Call("Query.Search", newContext(c, ctx), pr.msg)
        res == processResponse(reply.msg.searchResponse, reply.msg.tokens)
    IN  Wrote(
        IF pr.panic THEN Panic(FALSE, <<>>)
        ELSE IF pr.err # NoErr THEN Ret(FALSE, <<>>, NilResults, pr.err)
        ELSE IF reply.err # NoErr THEN Ret(TRUE, <<call>>, NilResults, reply.err)
        ELSE IF res.panic THEN Panic(TRUE, <<call>>)
        ELSE IF res.err # NoErr THEN Ret(TRUE, <<call>>, NilResults, res.err)
        ELSE Ret(TRUE, <<call>>, res.msg, NoErr),
        Request_bodyArray(r))

Query_AnalyseMulti_callFirst(c, ctx, ks, r, reply) ==
    LET pr == Request_proto(r)
        pbks == keys_proto(ks)
        call == Call("Query.Analyse", newContext(c, ctx),
                     [searchRequest |-> IF pr.err = NoErr /\ ~pr.panic
                                        THEN pr.msg.searchRequest ELSE Nil,
                      keys |-> pbks.msg])
    IN  Wrote(
        IF pr.panic THEN Panic(FALSE, <<>>)
        ELSE IF pr.err # NoErr THEN Ret(FALSE, <<call>>, NilList, pr.err)
        ELSE IF pbks.err # NoErr THEN Ret(FALSE, <<call>>, NilList, pbks.err)
        ELSE IF reply.err # NoErr THEN Ret(TRUE, <<call>>, NilList, reply.err)
        ELSE Ret(TRUE, <<call>>, List(reply.msg.terms),
                 multiErrorFromRecordStatusProto(reply.msg.status)),
        Request_bodyArray(r))

Query_AnalyseMulti(c, ctx, ks, r, reply) ==
    LET pr == Request_proto(r)
        pbks == keys_proto(ks)
        call == Call("Query.Analyse", newContext(c, ctx),
                     [searchRequest |-> pr.msg.searchRequest, keys |-> pbks.msg])
    IN  Wrote(
        IF pr.panic THEN Panic(FALSE, <<>>)
        ELSE IF pr.err # NoErr THEN Ret(FALSE, <<>>, NilList, pr.err)
        ELSE IF pbks.err # NoErr THEN Ret(FALSE, <<>>, NilList, pbks.err)
        ELSE IF reply.err # NoErr THEN Ret(TRUE, <<call>>, NilList, reply.err)
        ELSE Ret(TRUE, <<call>>, List(reply.msg.terms),
                 multiErrorFromRecordStatusProto(reply.msg.status)),
        Request_bodyArray(r))

Query_Analyse(c, ctx, k, r, reply) ==
    Then(Query_AnalyseMulti(c, ctx, <<k>>, r, reply),
         LAMBDA m :
         Wrote(
         IF m.panic THEN m
         ELSE IF m.err # NoErr
         THEN IF IsMultiError(m.err)
              THEN Ret(m.built, m.calls, NilList, m.err.errs[1])
              ELSE Ret(m.built, m.calls, NilList, m.err)
         \* out[0] of an empty list: index out of range
         ELSE IF Len(m.val.items) = 0 THEN Panic(m.built, m.calls)
         ELSE Ret(m.built, m.calls, List(m.val.items[1]), NoErr),
         m.mem))

\* a LearnMulti that gives every tuple the terms of the first key
LearnMulti_firstTerms(c, ctx, ks, r, counts, scores, reply, reply2) ==
    IF Len(ks) # Len(counts) \/ Len(ks) # Len(scores)
    THEN Wrote(Ret(FALSE, <<>>, Nil,
                   LocalError("number of keys, counts and scores do not match")),
               r.IndexQuery.Body.arr)
    ELSE Then(Query_AnalyseMulti(c, ctx, ks, r, reply),
              LAMBDA a :
         Then(keys_proto(ks),
              LAMBDA pbks :
         LET ars == a.val.items
             keysScores == [i \in 1..Len(pbks.msg) |->
                               [key |-> pbks.msg[i], terms |-> ars[1],
                                count |-> counts[i], score |-> scores[i]]]
             call == Call("Score.Increment", newContext(c, ctx),
                          [keysScores |-> keysScores])
         IN  Wrote(
             IF a.panic THEN a
             ELSE IF a.err # NoErr THEN Ret(a.built, a.calls, Nil, a.err)
             ELSE IF pbks.err # NoErr THEN Ret(a.built, a.calls, Nil, pbks.err)
             \* ars[i] beyond the terms Analyse returned: index out of range
             ELSE IF Len(ars) < Len(pbks.msg) THEN Panic(a.built, a.calls)
             ELSE IF reply2.err # NoErr
             THEN Ret(a.built, Append(a.calls, call), Nil, reply2.err)
             ELSE Ret(a.built, Append(a.calls, call), Nil,
                      multiErrorFromRecordStatusProto(reply2.msg.status)),
             a.mem)))

\* LearnMulti: reply is the reply to Analyse, reply2 the reply to Increment
LearnMulti(c, ctx, ks, r, counts, scores, reply, reply2) ==
    IF Len(ks) # Len(counts) \/ Len(ks) # Len(scores)
    THEN Wrote(Ret(FALSE, <<>>, Nil,
                   LocalError("number of keys, counts and scores do not match")),
               r.IndexQuery.Body.arr)
    ELSE Then(Query_AnalyseMulti(c, ctx, ks, r, reply),
              LAMBDA a :
         Then(keys_proto(ks),
              LAMBDA pbks :
         LET ars == a.val.items
             keysScores == [i \in 1..Len(pbks.msg) |->
                               [key |-> pbks.msg[i], terms |-> ars[i],
                                count |-> counts[i], score |-> scores[i]]]
             call == Call("Score.Increment", newContext(c, ctx),
                          [keysScores |-> keysScores])
         IN  Wrote(
             IF a.panic THEN a
             ELSE IF a.err # NoErr THEN Ret(a.built, a.calls, Nil, a.err)
             ELSE IF pbks.err # NoErr THEN Ret(a.built, a.calls, Nil, pbks.err)
             \* ars[i] beyond the terms Analyse returned: index out of range
             ELSE IF Len(ars) < Len(pbks.msg) THEN Panic(a.built, a.calls)
             ELSE IF reply2.err # NoErr
             THEN Ret(a.built, Append(a.calls, call), Nil, reply2.err)
             ELSE Ret(a.built, Append(a.calls, call), Nil,
                      multiErrorFromRecordStatusProto(reply2.msg.status)),
             a.mem)))

Learn(c, ctx, k, r, count, score, reply, reply2) ==
    Then(LearnMulti(c, ctx, <<k>>, r, <<count>>, <<score>>, reply, reply2),
         LAMBDA m :
         IF ~m.panic /\ m.err # NoErr /\ IsMultiError(m.err)
         THEN Wrote(Ret(m.built, m.calls, Nil, m.err.errs[1]), m.mem)
         ELSE m)

\* Pipeline.Search of the pipeline called name
Pipeline_Search(c, name, ctx, values, tracking, reply) ==
    LET pbTracking == Tracking_proto(tracking)
        call == Call("Pipeline.Search", newContext(c, ctx),
                     [pipeline |-> name, tracking |-> pbTracking.msg,
                      values |-> values])
        res == processResponse(reply.msg.searchResponse, reply.msg.tokens)
    IN  IF pbTracking.err # NoErr THEN Ret(FALSE, <<>>, NilResults, pbTracking.err)
        ELSE IF reply.err # NoErr THEN Ret(TRUE, <<call>>, NilResults, reply.err)
        ELSE IF res.panic THEN Panic(TRUE, <<call>>)
        ELSE IF res.err # NoErr THEN Ret(TRUE, <<call>>, NilResults, res.err)
        ELSE Ret(TRUE, <<call>>, [results |-> res.msg, values |-> reply.msg.values],
                 NoErr)

(***************************************************************************)
(* Schema.                                                                 *)
(***************************************************************************)
\* the Type constants of the library, and the values of the wire enum
TypeString == "STRING"
TypeInteger == "INTEGER"
TypeFloat == "FLOAT"
TypeBoolean == "BOOLEAN"
TypeTimestamp == "TIMESTAMP"
Types == {TypeString, TypeInteger, TypeFloat, TypeBoolean, TypeTimestamp}

Field_STRING == "pb.Field_STRING"
Field_INTEGER == "pb.Field_INTEGER"
Field_FLOAT == "pb.Field_FLOAT"
Field_BOOLEAN == "pb.Field_BOOLEAN"
Field_TIMESTAMP == "pb.Field_TIMESTAMP"

typeFromProto(t) ==
    CASE t = Field_STRING -> [err |-> NoErr, msg |-> TypeString]
      [] t = Field_INTEGER -> [err |-> NoErr, msg |-> TypeInteger]
      [] t = Field_FLOAT -> [err |-> NoErr, msg |-> TypeFloat]
      [] t = Field_BOOLEAN -> [err |-> NoErr, msg |-> TypeBoolean]
      [] t = Field_TIMESTAMP -> [err |-> NoErr, msg |-> TypeTimestamp]
      [] OTHER -> [err |-> LocalError("unknown type"), msg |-> TypeString]

\* a Type.proto that sends FLOAT as the wire INTEGER
Type_proto_floatAsInteger(t) ==
    CASE t = TypeString -> [err |-> NoErr, msg |-> Field_STRING]
      [] t = TypeInteger -> [err |-> NoErr, msg |-> Field_INTEGER]
      [] t = TypeFloat -> [err |-> NoErr, msg |-> Field_INTEGER]
      [] t = TypeBoolean -> [err |-> NoErr, msg |-> Field_BOOLEAN]
      [] t = TypeTimestamp -> [err |-> NoErr, msg |-> Field_TIMESTAMP]
      [] OTHER -> [err |-> LocalError("unknown type"), msg |-> Field_STRING]

Type_proto(t) ==
    CASE t = TypeString -> [err |-> NoErr, msg |-> Field_STRING]
      [] t = TypeInteger -> [err |-> NoErr, msg |-> Field_INTEGER]
      [] t = TypeFloat -> [err |-> NoErr, msg |-> Field_FLOAT]
      [] t = TypeBoolean -> [err |-> NoErr, msg |-> Field_BOOLEAN]
      [] t = TypeTimestamp -> [err |-> NoErr, msg |-> Field_TIMESTAMP]
      [] OTHER -> [err |-> LocalError("unknown type"), msg |-> Field_STRING]

Field_proto(f) ==
    LET t == Type_proto(f.Type)
    IN  IF t.err # NoErr THEN [err |-> t.err, msg |-> Nil]
        ELSE [err |-> NoErr,
              msg |-> [name |-> f.Name, description |-> f.Description,
                       type |-> t.msg, repeated |-> f.Repeated,
                       required |-> f.Required, indexed |-> f.Indexed,
                       unique |-> f.Unique]]

fields_proto(fs) == ProtoList([i \in 1..Len(fs) |-> Field_proto(fs[i])])

FieldFromProto(f) ==
    LET t == typeFromProto(f.type)
    IN  IF t.err # NoErr THEN [err |-> t.err, msg |-> Nil]
        ELSE [err |-> NoErr,
              msg |-> [Name |-> f.name, Description |-> f.description,
                       Type |-> t.msg, Repeated |-> f.repeated,
                       Required |-> f.required, Indexed |-> f.indexed,
                       Unique |-> f.unique]]

Schema_Fields(c, ctx, reply) ==
    LET call == Call("Schema.GetFields", newContext(c, ctx), Nil)
        out == ProtoList([i \in 1..Len(reply.msg.fields) |->
                             FieldFromProto(reply.msg.fields[i])])
    IN  IF reply.err # NoErr THEN Ret(TRUE, <<call>>, NilList, reply.err)
        ELSE IF out.err # NoErr THEN Ret(TRUE, <<call>>, NilList, out.err)
        ELSE Ret(TRUE, <<call>>, List(out.msg), NoErr)

Schema_Add(c, ctx, fs, reply) ==
    LET pbfs == fields_proto(fs)
        call == Call("Schema.AddFields", newContext(c, ctx), [fields |-> pbfs.msg])
    IN  IF pbfs.err # NoErr THEN Ret(FALSE, <<>>, Nil, pbfs.err)
        ELSE IF reply.err # NoErr THEN Ret(TRUE, <<call>>, Nil, reply.err)
        ELSE Ret(TRUE, <<call>>, Nil,
                 multiErrorFromSchemaStatusProto(reply.msg.status))

\* schema field mutations: NameMutation, TypeMutation and the four flags
NameMutation(name) == [kind |-> "name", v |-> name]
TypeMutation(ty) == [kind |-> "type", v |-> ty]
UniqueMutation(b) == [kind |-> "unique", v |-> b]
IndexedMutation(b) == [kind |-> "indexed", v |-> b]
RepeatedMutation(b) == [kind |-> "repeated", v |-> b]
RequiredMutation(b) == [kind |-> "required", v |-> b]

Mutation_proto(m) ==
    IF m.kind = "type"
    THEN LET ty == Type_proto(m.v)
         IN  IF ty.err # NoErr THEN [err |-> ty.err, msg |-> Nil]
             ELSE [err |-> NoErr, msg |-> [kind |-> "type", v |-> ty.msg]]
    ELSE [err |-> NoErr, msg |-> m]

\* a serialiser that emits the mutations last to first
mutations_proto_reversed(ms) ==
    ProtoList([i \in 1..Len(ms) |-> Mutation_proto(ms[Len(ms) + 1 - i])])

mutations_proto(ms) == ProtoList([i \in 1..Len(ms) |-> Mutation_proto(ms[i])])

\* MutateField hands the caller's ctx to the call as it is
Schema_MutateField(c, ctx, name, muts, reply) ==
    LET pbMuts == mutations_proto(muts)
        call == Call("Schema.MutateField", ctx,
                     [name |-> name, mutations |-> pbMuts.msg])
    IN  IF pbMuts.err # NoErr THEN Ret(FALSE, <<>>, Nil, pbMuts.err)
        ELSE IF reply.err # NoErr THEN Ret(TRUE, <<call>>, Nil, reply.err)
        ELSE Ret(TRUE, <<call>>, Nil,
                 multiErrorFromSchemaStatusProto(reply.msg.status))

(***************************************************************************)
(* The autocomplete client (autocomplete/autocomplete.go).                 *)
(***************************************************************************)
Autocomplete_TrainCorpus(c, name, ctx, terms, reply) ==
    LET call == Call("Autocomplete.TrainCorpus", NewContext(ctx, c.Project, c.Collection),
                     [model |-> name, terms |-> terms])
    IN  Ret(TRUE, <<call>>, Nil, reply.err)

Autocomplete_TrainQuery(c, name, ctx, phrase, reply) ==
    LET call == Call("Autocomplete.TrainQuery", NewContext(ctx, c.Project, c.Collection),
                     [model |-> name, phrase |-> phrase])
    IN  Ret(TRUE, <<call>>, Nil, reply.err)

Autocomplete_Complete(c, name, ctx, phrase, terms, reply) ==
    LET call == Call("Autocomplete.AutoComplete",
                     NewContext(ctx, c.Project, c.Collection),
                     [model |-> name, phrase |-> phrase, terms |-> terms])
    IN  IF reply.err # NoErr THEN Ret(TRUE, <<call>>, NilList, reply.err)
        ELSE Ret(TRUE, <<call>>, List(reply.msg.phrases), NoErr)

(***************************************************************************)
(* The bayes handles (bayes/bayes.go).                                     *)
(***************************************************************************)
TrainingSet_Create(c, name, ctx, reply) ==
    LET call == Call("TrainingSet.Create", NewContext(ctx, c.Project, c.Collection),
                     [name |-> name])
    IN  Ret(TRUE, <<call>>, Nil, reply.err)

TrainingSet_AddClass(c, name, ctx, class, reply) ==
    LET call == Call("TrainingSet.AddClass", NewContext(ctx, c.Project, c.Collection),
                     [name |-> name, class |-> class])
    IN  IF reply.err # NoErr THEN Ret(TRUE, <<call>>, [name |-> ""], reply.err)
        ELSE Ret(TRUE, <<call>>, [name |-> class], NoErr)

TrainingSet_AddRecord(c, name, ctx, class, data, reply) ==
    LET call == Call("TrainingSet.Upload", NewContext(ctx, c.Project, c.Collection),
                     [name |-> name, class |-> class.name, data |-> data])
    IN  IF reply.err # NoErr THEN Ret(TRUE, <<call>>, [hash |-> ""], reply.err)
        ELSE Ret(TRUE, <<call>>, [hash |-> reply.msg.hash], NoErr)

\* Classes hands the caller's ctx to the call as it is
TrainingSet_Classes(c, name, ctx, reply) ==
    LET call == Call("TrainingSet.Info", ctx, [name |-> name])
    IN  IF reply.err # NoErr THEN Ret(TRUE, <<call>>, NilList, reply.err)
        ELSE Ret(TRUE, <<call>>,
                 List([i \in 1..Len(reply.msg.classes) |->
                          [name |-> reply.msg.classes[i]]]), NoErr)

TrainingSet_Train(c, name, ctx, model, reply) ==
    LET call == Call("Train.Train", NewContext(ctx, c.Project, c.Collection),
                     [name |-> name, model |-> model])
    IN  IF reply.err # NoErr THEN Ret(TRUE, <<call>>, NilResults, reply.err)
        ELSE Ret(TRUE, <<call>>,
                 [Correct |-> reply.msg.correct, Incorrect |-> reply.msg.incorrect],
                 NoErr)

\* Model.Classes is panic("Not implemented")
Model_Classes(c, name) == Panic(FALSE, <<>>)

Model_Classify(c, name, ctx, data, reply) ==
    LET call == Call("BayesQuery.Query", NewContext(ctx, c.Project, c.Collection),
                     [model |-> name, data |-> data])
    IN  IF reply.err # NoErr THEN Ret(TRUE, <<call>>, Nil, reply.err)
        ELSE Ret(TRUE, <<call>>, [name |-> reply.msg.best], NoErr)

(***************************************************************************)
(* Arguments the callers pass and replies the service gives.               *)
(***************************************************************************)
GoodRecord == ("_body" :> GoString(Chars_a)) @@ ("n" :> GoInt(10))
BadRecord == ("_body" :> GoString(Chars_a)) @@ ("n" :> GoFloats(<<>>))
\* records holding a list of booleans, a list of timestamps
FlagsRecord == ("_body" :> GoString(Chars_a)) @@ ("flags" :> GoBools(<<TRUE, FALSE>>))
StampsRecord == ("_body" :> GoString(Chars_a)) @@ ("seen" :> GoTimes(<<5>>))
InputRecords == {GoodRecord, BadRecord, FlagsRecord, StampsRecord}
InputTransforms == {<<>>, <<StopStemTransform>>, <<StopStemTransform, SplitIndexedFieldsTransform>>}

IntKey == NewKey("id", GoInt(7))
StringKey == NewKey("id", GoString(Chars_b))
\* a time.Time is no single value: the key cannot be serialised
TimeKey == NewKey("id", GoTime(5))
InputKeys == {IntKey, StringKey, NilKey, TimeKey}

InputFieldMutations == {<<>>, <<SetField("f", GoInt(1))>>, <<SetField("f", GoNil)>>}
InputRecordMutations ==
    {RecordMutation(k, m) : k \in {IntKey, NilKey}, m \in InputFieldMutations}

Chars_count == <<"c", "o", "u", "n", "t">>
GoodFieldFilter == FieldFilter(Chars_count \o <<" ", ">", "=">>, GoInt(10))
OtherFieldFilter == FieldFilter(<<"n", "~">>, GoString(Chars_a))
BadOpFieldFilter == FieldFilter(Chars_count \o <<" ", "=", "=">>, GoInt(10))
BadValueFieldFilter == FieldFilter(Chars_count \o <<"=">>, GoNil)

InputFilters ==
    {NilFilter, GoodFieldFilter, BadOpFieldFilter, BadValueFieldFilter,
     GeoFilter(GeoFilterInside), GeoFilter(2),
     AllFilters(<<AnyFilter(<<GoodFieldFilter, OtherFieldFilter>>),
                  GeoFilter(GeoFilterOutside)>>),
     AllFilters(<<GoodFieldFilter, BadOpFieldFilter>>),
     AnyFilter(<<GoodFieldFilter, NilFilter>>)}

InputTrackingTypes == {TrackingNone, TrackingClick, TrackingPosNeg, "BOGUS"}
Tracking(t) == [Type |-> t, QueryID |-> "q"]

\* IndexQuery{}, FeatureQuery{} and Request{}: the zero values
ZeroIndexQuery ==
    [Text |-> "", Body |-> NilSlice, Terms |-> <<>>, FieldBoosts |-> NilList,
     InstanceBoosts |-> NilList]
ZeroFeatureQuery == [FieldBoosts |-> NilList]
ZeroRequest ==
    [Tracking |-> Tracking(TrackingNone), Filter |-> NilFilter,
     IndexQuery |-> ZeroIndexQuery, FeatureQuery |-> ZeroFeatureQuery,
     Offset |-> 0, Limit |-> 10, Sort |-> NilList, Fields |-> <<>>,
     Aggregates |-> NilMap, Transforms |-> <<>>]

Request(t, f) == [ZeroRequest EXCEPT !.Tracking = Tracking(t), !.Filter = f]

\* a request for text, whose Body is the slice of the first n of bodies
TextRequest(text, bodies, n) ==
    [ZeroRequest EXCEPT !.IndexQuery.Text = text,
                        !.IndexQuery.Body = Slice(bodies, n)]

BodyA == Body("a", 2)
BodyB == Body("b", 3)

\* a Body slice cut from a longer one: room for one more after its element
SpareTextRequest == TextRequest("hello", <<BodyA, BodyB>>, 1)

CountRequest ==
    [ZeroRequest EXCEPT
        !.Aggregates = Map(<<"total_count">>,
                           "total_count" :> CountAggregate("category"))]

InputRequests ==
    {Request(TrackingNone, f) : f \in InputFilters}
        \cup {Request(t, NilFilter) : t \in InputTrackingTypes}
        \cup {Request("BOGUS", BadOpFieldFilter)}
        \cup {SpareTextRequest, TextRequest("hello", <<BodyA>>, 1), CountRequest}

\* the requests given to the analyse and learning path
InputAnalyseRequests ==
    {Request(TrackingNone, NilFilter), Request(TrackingNone, BadOpFieldFilter),
     Request("BOGUS", NilFilter), Request(TrackingNone, AnyFilter(<<NilFilter>>)),
     SpareTextRequest}

\* the parts of the query model given to Request.proto()
InputFieldBoosts ==
    {FilterFieldBoost(GoodFieldFilter, 2), FilterFieldBoost(NilFilter, 2),
     FilterFieldBoost(BadValueFieldFilter, 2),
     IntervalFieldBoost("price", <<IntervalPoint(0, 0), IntervalPoint(10, 1)>>),
     ElementFieldBoost("tags", <<"x", "y">>), TextFieldBoost("title", "foo"),
     NilBoost}
InputFeatureBoosts ==
    {NewFeatureFieldBoost(b, 1) :
        b \in {TextFieldBoost("title", "foo"), FilterFieldBoost(BadOpFieldFilter, 2),
               FilterFieldBoost(NilFilter, 2), NilBoost}}
InputInstanceBoosts ==
    {FieldInstanceBoost("title", 2), ScoreInstanceBoost(3, 1), NilInstanceBoost}
InputSorts == {SortByField(<<"-", "p">>), SortByField(<<"p">>), NilSort}
InputAggregates ==
    {CountAggregate("category"), MaxAggregate("price"), MinAggregate("price"),
     AvgAggregate("price"), SumAggregate("price"),
     BucketAggregate(<<Bucket("cheap", GoodFieldFilter),
                       Bucket("near", GeoFilter(GeoFilterInside))>>),
     BucketAggregate(<<Bucket("all", NilFilter)>>),
     BucketAggregate(<<Bucket("bad", BadOpFieldFilter)>>),
     NilAggregate}
AggregateKeys == {"total_count", "by_price"}

\* the orders in which a range loop may visit the keys ks
Orders(ks) == {o \in [1..Cardinality(ks) -> ks] : \A k \in ks : \E i \in DOMAIN o : o[i] = k}

InputAggregateMaps ==
    {NilMap} \cup
    UNION {{Map(o, items) : o \in Orders(DOMAIN items)} :
              items \in UNION {[ks -> InputAggregates] : ks \in SUBSET AggregateKeys}}

\* filter trees: a combinator holds no child, one child, or a leaf and a
\* child in either order
MaxDepth == 2
TreeLeaves == {GoodFieldFilter, OtherFieldFilter, BadOpFieldFilter, GeoFilter(2)}
CombOps == {combFilterOpAll, combFilterOpAny, combFilterOpOne, combFilterOpNone}

RECURSIVE FilterTrees(_)
FilterTrees(d) ==
    IF d = 0 THEN TreeLeaves
    ELSE LET sub == FilterTrees(d - 1)
         IN  sub \cup
             {newCombFilter(o, fs) :
                 o \in CombOps,
                 fs \in {<<>>} \cup {<<t>> : t \in sub}
                        \cup {<<l, t>> : l \in TreeLeaves, t \in sub}
                        \cup {<<t, l>> : l \in TreeLeaves, t \in sub}}

\* comparison values of a field filter
InputFilterValues ==
    {GoInt(10), GoString(Chars_a), GoBool(TRUE), GoFloat(1, 5), GoTime(5),
     GoStrings(<<Chars_a>>), GoNil, GoFloats(<<>>)}

\* interval boosts: up to MaxPoints points in any order, repeated points
\* included
MaxPoints == 3
InputPoints == {IntervalPoint(0, 0), IntervalPoint(10, 4), IntervalPoint(5, 1)}
InputIntervalBoosts ==
    {IntervalFieldBoost(f, pts) :
        f \in {"price", ""}, pts \in SeqsUpTo(InputPoints, MaxPoints)}

InputProtoRequests ==
    {[ZeroRequest EXCEPT !.IndexQuery.FieldBoosts = List(<<b>>)] :
        b \in InputIntervalBoosts}
    \cup
    {[ZeroRequest EXCEPT !.Filter = f] :
        f \in FilterTrees(MaxDepth) \cup InputFilters \cup {newCombFilter(7, <<>>)}
              \cup {FieldFilter(Chars_count \o <<">", "=">>, v) : v \in InputFilterValues}}
    \cup {[ZeroRequest EXCEPT !.IndexQuery.FieldBoosts = List(bs)] :
            bs \in SeqsUpTo(InputFieldBoosts, MaxBatch)}
    \cup {[ZeroRequest EXCEPT !.IndexQuery.InstanceBoosts = List(bs)] :
            bs \in SeqsUpTo(InputInstanceBoosts, MaxBatch)}
    \cup {[ZeroRequest EXCEPT !.FeatureQuery.FieldBoosts = List(bs)] :
            bs \in SeqsUpTo(InputFeatureBoosts, MaxBatch)}
    \cup {[ZeroRequest EXCEPT !.Sort = List(ss)] : ss \in SeqsUpTo(InputSorts, MaxBatch)}
    \cup {[ZeroRequest EXCEPT !.Aggregates = as] : as \in InputAggregateMaps}
    \cup {TextRequest(text, <<BodyA, BodyB>>, n) : text \in {"", "hello"}, n \in 0..2}
    \cup {[TextRequest("hello", <<>>, 0) EXCEPT
             !.IndexQuery.Terms = <<Term("foo", "title")>>,
             !.Transforms = <<StopStemTransform>>, !.Offset = 5,
             !.Fields = <<"title">>]}
    \cup {Request(t, f) : t \in InputTrackingTypes, f \in {NilFilter, BadOpFieldFilter}}

StatusLists == SeqsUpTo(Codes, MaxStatus)
StatusReplies == {FailedReply} \cup {Reply([status |-> st]) : st \in StatusLists}

\* wire keys of a reply: no key, a key, a key whose value has no member set,
\* a key with a field and no value
ReplyKeys == {EmptyPbKey, PbKey("id", Single(<<"7">>)), PbKey("id", Unset),
              PbKey("id", NoValue)}
AddReplies ==
    {FailedReply} \cup
    {Reply([keys |-> ks, status |-> st]) :
        ks \in SeqsUpTo(ReplyKeys, MaxBatch), st \in StatusLists}

ReplyRecords == {"_body" :> Single(Chars_a), "_body" :> Unset}
GetReplies ==
    {FailedReply} \cup
    {Reply([records |-> rs, status |-> st]) :
        rs \in SeqsUpTo(ReplyRecords, MaxBatch), st \in StatusLists}

\* the terms of the record at position i
TermsAt(i) == <<"term", FormatInt(i)>>
AnalyseReplies ==
    {FailedReply} \cup
    {Reply([terms |-> [i \in 1..n |-> TermsAt(i)], status |-> st]) :
        n \in 0..MaxBatch, st \in StatusLists}

ReplyResults == {[values |-> "f" :> Single(Chars_a), score |-> 1],
                 [values |-> "f" :> Unset, score |-> 2]}
ReplyTokens == {[kind |-> "click", token |-> "tok"],
                [kind |-> "posneg", pos |-> "p", neg |-> "n"],
                [kind |-> "unset"]}
\* the aggregates of a reply: none, or a map from the caller's keys
ReplyAggregates ==
    {Nil,
     ("total_count" :> [kind |-> "count", counts |-> "shoes" :> 3])
         @@ ("by_price" :> [kind |-> "metric", value |-> 7]),
     ("total_count" :> [kind |-> "unset"])
         @@ ("by_price" :> [kind |-> "buckets",
                            buckets |-> "cheap" :> [Name |-> "cheap", Count |-> 2]])}
SearchResponses ==
    {[results |-> rs, timeOK |-> t, totalResults |-> Len(rs), aggregates |-> ags] :
        rs \in SeqsUpTo(ReplyResults, MaxBatch), t \in BOOLEAN,
        ags \in ReplyAggregates}
SearchReplies ==
    {FailedReply, Reply([searchResponse |-> Nil, tokens |-> <<>>])} \cup
    {Reply([searchResponse |-> sr, tokens |-> ts]) :
        sr \in SearchResponses, ts \in SeqsUpTo(ReplyTokens, MaxBatch)}
PipelineReplies ==
    {FailedReply} \cup
    {Reply([searchResponse |-> r.msg.searchResponse, tokens |-> r.msg.tokens,
            values |-> "q" :> "hello"]) : r \in SearchReplies \ {FailedReply}}

WireField(t) == [name |-> "f", description |-> "d", type |-> t, repeated |-> FALSE,
                 required |-> TRUE, indexed |-> FALSE, unique |-> TRUE]
FieldsReplies ==
    {FailedReply} \cup
    {Reply([fields |-> fs]) :
        fs \in SeqsUpTo({WireField(Field_STRING), WireField(Field_TIMESTAMP),
                         WireField("UNKNOWN")}, MaxBatch)}

InputField(t) == [Name |-> "f", Description |-> "d", Type |-> t, Repeated |-> TRUE,
                  Required |-> FALSE, Indexed |-> TRUE, Unique |-> FALSE]
InputFields == {InputField("STRING"), InputField("FLOAT"), InputField("BOGUS")}
InputMutations == {NameMutation("g"), TypeMutation("INTEGER"), TypeMutation("BOGUS"),
                   UniqueMutation(TRUE)}

(***************************************************************************)
(* The state machine: a caller invokes one operation at a time; the        *)
(* operation runs to its return (the library is synchronous and keeps no   *)
(* state between calls), the caller may ask the returned MultiError for    *)
(* its string, and then goes on to the next operation.                     *)
(***************************************************************************)
NoStr == [text |-> "", tail |-> "unasked", count |-> 0]
NoRet == [built |-> FALSE, val |-> Nil, err |-> NoErr, panic |-> FALSE]

\* the library before any call
LibraryInit ==
    /\ pc = "idle"
    /\ oper = "none"
    /\ inp = Nil
    /\ replies = <<>>
    /\ calls = <<>>
    /\ ret = NoRet
    /\ mem = <<>>
    /\ errStr = NoStr
    /\ defaults = DefaultAddTransforms

\* csv-import is not running
NoImport ==
    /\ flags = Nil
    /\ ipc = "none"
    /\ spawned = 0
    /\ queued = 0
    /\ ch = <<>>
    /\ closes = 0
    /\ wg = 0
    /\ wpc = <<>>
    /\ batch = <<>>
    /\ sends = <<>>
    /\ failures = 0

Init == LibraryInit /\ NoImport

\* the operation called name, given input, has consumed rs and ended as o
Finish(name, input, rs, o) ==
    /\ pc' = "done"
    /\ oper' = name
    /\ inp' = input
    /\ replies' = rs
    /\ calls' = o.calls
    /\ ret' = [built |-> o.built, val |-> o.val, err |-> o.err, panic |-> o.panic]
    /\ mem' = o.mem
    /\ errStr' = NoStr
    /\ defaults' = o.defs
    /\ UNCHANGED importvars

\* an operation F that consumes at most one reply, drawn from Rs when it calls
OneCall(name, input, Rs, F(_)) ==
    \E local \in {F(FailedReply)} :
        IF local.calls = <<>>
        THEN Finish(name, input, <<>>, local)
        ELSE \E reply \in Rs : \E o \in {F(reply)} :
                Finish(name, input, <<reply>>, o)

\* an operation F that consumes up to two replies
TwoCalls(name, input, Rs, Rs2, F(_, _)) ==
    \E local \in {F(FailedReply, FailedReply)} :
        IF local.calls = <<>>
        THEN Finish(name, input, <<>>, local)
        ELSE \E reply \in Rs : \E first \in {F(reply, FailedReply)} :
                IF Len(first.calls) < 2
                THEN Finish(name, input, <<reply>>, first)
                ELSE \E reply2 \in Rs2 : \E o \in {F(reply, reply2)} :
                        Finish(name, input, <<reply, reply2>>, o)

RunAddMulti ==
    /\ pc = "idle"
    /\ \E ctx \in CallerCtxs, rs \in SeqsUpTo(InputRecords, MaxBatch),
          ts \in InputTransforms :
          OneCall("AddMulti", [ctx |-> ctx, rs |-> rs, ts |-> ts], AddReplies,
                  LAMBDA reply : AddMulti(Client, ctx, rs, ts, reply))

RunAdd ==
    /\ pc = "idle"
    /\ \E ctx \in CallerCtxs, r \in InputRecords, ts \in InputTransforms :
          OneCall("Add", [ctx |-> ctx, r |-> r, ts |-> ts], AddReplies,
                  LAMBDA reply : Add(Client, ctx, r, ts, reply))

RunMutateMulti ==
    /\ pc = "idle"
    /\ \E ctx \in CallerCtxs, rms \in SeqsUpTo(InputRecordMutations, MaxBatch) :
          OneCall("MutateMulti", [ctx |-> ctx, rms |-> rms], StatusReplies,
                  LAMBDA reply : MutateMulti(Client, ctx, rms, reply))

RunMutate ==
    /\ pc = "idle"
    /\ \E ctx \in CallerCtxs, k \in {IntKey, NilKey}, m \in InputFieldMutations :
          OneCall("Mutate", [ctx |-> ctx, k |-> k, m |-> m], StatusReplies,
                  LAMBDA reply : Mutate(Client, ctx, k, m, reply))

RunDeleteMulti ==
    /\ pc = "idle"
    /\ \E ctx \in CallerCtxs, ks \in SeqsUpTo(InputKeys, MaxBatch) :
          OneCall("DeleteMulti", [ctx |-> ctx, ks |-> ks], StatusReplies,
                  LAMBDA reply : DeleteMulti(Client, ctx, ks, reply))

RunDelete ==
    /\ pc = "idle"
    /\ \E ctx \in CallerCtxs, k \in InputKeys :
          OneCall("Delete", [ctx |-> ctx, k |-> k], StatusReplies,
                  LAMBDA reply : Delete(Client, ctx, k, reply))

RunGetMulti ==
    /\ pc = "idle"
    /\ \E ctx \in CallerCtxs, ks \in SeqsUpTo(InputKeys, MaxBatch) :
          OneCall("GetMulti", [ctx |-> ctx, ks |-> ks], GetReplies,
                  LAMBDA reply : GetMulti(Client, ctx, ks, reply))

RunGet ==
    /\ pc = "idle"
    /\ \E ctx \in CallerCtxs, k \in InputKeys :
          OneCall("Get", [ctx |-> ctx, k |-> k], GetReplies,
                  LAMBDA reply : Get(Client, ctx, k, reply))

RunExistsMulti ==
    /\ pc = "idle"
    /\ \E ctx \in CallerCtxs, ks \in SeqsUpTo(InputKeys, MaxBatch) :
          OneCall("ExistsMulti", [ctx |-> ctx, ks |-> ks], StatusReplies,
                  LAMBDA reply : ExistsMulti(Client, ctx, ks, reply))

RunExists ==
    /\ pc = "idle"
    /\ \E ctx \in CallerCtxs, k \in InputKeys :
          OneCall("Exists", [ctx |-> ctx, k |-> k], StatusReplies,
                  LAMBDA reply : Exists(Client, ctx, k, reply))

RunSearch ==
    /\ pc = "idle"
    /\ \E ctx \in CallerCtxs, r \in InputRequests :
          OneCall("Query.Search", [ctx |-> ctx, r |-> r], SearchReplies,
                  LAMBDA reply : Query_Search(Client, ctx, r, reply))

RunAnalyseMulti ==
    /\ pc = "idle"
    /\ \E ctx \in CallerCtxs, ks \in SeqsUpTo(InputKeys, MaxBatch),
          r \in InputAnalyseRequests :
          OneCall("Query.AnalyseMulti", [ctx |-> ctx, ks |-> ks, r |-> r],
                  AnalyseReplies,
                  LAMBDA reply : Query_AnalyseMulti(Client, ctx, ks, r, reply))

RunAnalyse ==
    /\ pc = "idle"
    /\ \E ctx \in CallerCtxs, k \in InputKeys, r \in InputAnalyseRequests :
          OneCall("Query.Analyse", [ctx |-> ctx, k |-> k, r |-> r], AnalyseReplies,
                  LAMBDA reply : Query_Analyse(Client, ctx, k, r, reply))

\* counts and scores of the learning path: position i holds 10 + i and 20 + i
CountsOf(n) == [i \in 1..n |-> 10 + i]
ScoresOf(n) == [i \in 1..n |-> 20 + i]

RunLearnMulti ==
    /\ pc = "idle"
    /\ \E ctx \in CallerCtxs, ks \in SeqsUpTo(InputKeys, MaxBatch),
          r \in InputAnalyseRequests, nc \in 0..MaxBatch, ns \in 0..MaxBatch :
          TwoCalls("LearnMulti",
                   [ctx |-> ctx, ks |-> ks, r |-> r, counts |-> CountsOf(nc),
                    scores |-> ScoresOf(ns)],
                   AnalyseReplies, StatusReplies,
                   LAMBDA reply, reply2 :
                       LearnMulti(Client, ctx, ks, r, CountsOf(nc), ScoresOf(ns),
                                  reply, reply2))

RunLearn ==
    /\ pc = "idle"
    /\ \E ctx \in CallerCtxs, k \in InputKeys, r \in InputAnalyseRequests :
          TwoCalls("Learn", [ctx |-> ctx, k |-> k, r |-> r, count |-> 11,
                             score |-> 21],
                   AnalyseReplies, StatusReplies,
                   LAMBDA reply, reply2 :
                       Learn(Client, ctx, k, r, 11, 21, reply, reply2))

RunPipelineSearch ==
    /\ pc = "idle"
    /\ \E ctx \in CallerCtxs, t \in InputTrackingTypes :
          OneCall("Pipeline.Search",
                  [ctx |-> ctx, name |-> "website", values |-> "q" :> "hello",
                   tracking |-> Tracking(t)],
                  PipelineReplies,
                  LAMBDA reply : Pipeline_Search(Client, "website", ctx,
                                                 "q" :> "hello", Tracking(t), reply))

RunSchemaFields ==
    /\ pc = "idle"
    /\ \E ctx \in CallerCtxs :
          OneCall("Schema.Fields", [ctx |-> ctx], FieldsReplies,
                  LAMBDA reply : Schema_Fields(Client, ctx, reply))

RunSchemaAdd ==
    /\ pc = "idle"
    /\ \E ctx \in CallerCtxs, fs \in SeqsUpTo(InputFields, MaxBatch) :
          OneCall("Schema.Add", [ctx |-> ctx, fs |-> fs], StatusReplies,
                  LAMBDA reply : Schema_Add(Client, ctx, fs, reply))

RunSchemaMutateField ==
    /\ pc = "idle"
    /\ \E ctx \in CallerCtxs, muts \in SeqsUpTo(InputMutations, MaxBatch) :
          OneCall("Schema.MutateField", [ctx |-> ctx, name |-> "f", muts |-> muts],
                  StatusReplies,
                  LAMBDA reply : Schema_MutateField(Client, ctx, "f", muts, reply))

SimpleReplies(msgs) == {FailedReply} \cup {Reply(m) : m \in msgs}

RunTrainCorpus ==
    /\ pc = "idle"
    /\ \E ctx \in CallerCtxs :
          OneCall("Autocomplete.TrainCorpus", [ctx |-> ctx, terms |-> <<"foo">>],
                  SimpleReplies({Nil}),
                  LAMBDA reply : Autocomplete_TrainCorpus(Client, "ac", ctx,
                                                          <<"foo">>, reply))

RunTrainQuery ==
    /\ pc = "idle"
    /\ \E ctx \in CallerCtxs :
          OneCall("Autocomplete.TrainQuery", [ctx |-> ctx, phrase |-> "foo bar"],
                  SimpleReplies({Nil}),
                  LAMBDA reply : Autocomplete_TrainQuery(Client, "ac", ctx,
                                                         "foo bar", reply))

RunComplete ==
    /\ pc = "idle"
    /\ \E ctx \in CallerCtxs :
          OneCall("Autocomplete.Complete",
                  [ctx |-> ctx, phrase |-> "fo", terms |-> <<"fo">>],
                  SimpleReplies({[phrases |-> ps] :
                                    ps \in SeqsUpTo({"foo", "for"}, MaxBatch)}),
                  LAMBDA reply : Autocomplete_Complete(Client, "ac", ctx, "fo",
                                                       <<"fo">>, reply))

RunTrainingSetCreate ==
    /\ pc = "idle"
    /\ \E ctx \in CallerCtxs :
          OneCall("TrainingSet.Create", [ctx |-> ctx], SimpleReplies({Nil}),
                  LAMBDA reply : TrainingSet_Create(Client, "ts", ctx, reply))

RunTrainingSetAddClass ==
    /\ pc = "idle"
    /\ \E ctx \in CallerCtxs, class \in {"spam", "ham"} :
          OneCall("TrainingSet.AddClass", [ctx |-> ctx, class |-> class],
                  SimpleReplies({Nil}),
                  LAMBDA reply : TrainingSet_AddClass(Client, "ts", ctx, class, reply))

RunTrainingSetAddRecord ==
    /\ pc = "idle"
    /\ \E ctx \in CallerCtxs, class \in {"spam", "ham"} :
          OneCall("TrainingSet.AddRecord",
                  [ctx |-> ctx, class |-> class, data |-> <<"buy">>],
                  SimpleReplies({[hash |-> "h1"], [hash |-> "h2"]}),
                  LAMBDA reply : TrainingSet_AddRecord(Client, "ts", ctx,
                                                       [name |-> class], <<"buy">>,
                                                       reply))

RunTrainingSetClasses ==
    /\ pc = "idle"
    /\ \E ctx \in CallerCtxs :
          OneCall("TrainingSet.Classes", [ctx |-> ctx],
                  SimpleReplies({[classes |-> cs] :
                                    cs \in SeqsUpTo({"spam", "ham"}, MaxBatch)}),
                  LAMBDA reply : TrainingSet_Classes(Client, "ts", ctx, reply))

RunTrainingSetTrain ==
    /\ pc = "idle"
    /\ \E ctx \in CallerCtxs :
          OneCall("TrainingSet.Train", [ctx |-> ctx, model |-> "m"],
                  SimpleReplies({[correct |-> n, incorrect |-> MaxBatch - n] :
                                    n \in 0..MaxBatch}),
                  LAMBDA reply : TrainingSet_Train(Client, "ts", ctx, "m", reply))

RunModelClasses ==
    /\ pc = "idle"
    /\ \E o \in {Model_Classes(Client, "m")} : Finish("Model.Classes", Nil, <<>>, o)

RunModelClassify ==
    /\ pc = "idle"
    /\ \E ctx \in CallerCtxs :
          OneCall("Model.Classify", [ctx |-> ctx, data |-> <<"buy">>],
                  SimpleReplies({[best |-> "spam"], [best |-> "ham"]}),
                  LAMBDA reply : Model_Classify(Client, "m", ctx, <<"buy">>, reply))

\* field names and comparison values given to FieldFilter
FilterNames == {<<>>, Chars_count, <<"a", " ", "b">>, <<"a", "=", "b">>}
FilterValues == {GoInt(10), GoString(Chars_a), GoBool(TRUE), GoNil}

\* a caller makes FieldFilter(name + suffix, value) and serialises it
RunFieldFilter ==
    /\ pc = "idle"
    /\ \E name \in FilterNames, suffix \in SeqsUpTo(Cutset, MaxSuffix),
          value \in FilterValues :
          LET pf == fieldFilter_proto(FieldFilter(name \o suffix, value))
          IN  Finish("FieldFilter", [name |-> name, suffix |-> suffix, value |-> value],
                     <<>>, Ret(pf.err = NoErr, <<>>, pf.msg, pf.err))

\* values of every shape a caller may hand to the value encoder
InputValues ==
    {GoInt(10), GoInt(0 - 3), GoString(Chars_a), GoString(<<>>), GoBool(TRUE),
     GoBool(FALSE), GoFloat(1, 5), GoFloat(2, 0), GoTime(5), GoTime(0 - 1),
     GoStrings(<<>>), GoStrings(<<Chars_b, Chars_a>>),
     GoInts(<<>>), GoInts(<<12, 0 - 3, 7>>), GoInt64s(<<7, 12>>),
     GoFloats(<<>>), GoFloats(<<[whole |-> 1, tenths |-> 5]>>),
     GoBools(<<TRUE, FALSE>>), GoTimes(<<5>>), GoNil}

\* a value is encoded with pbValueFromInterface and, when that gave a wire
\* value, decoded with valueFromProto
RunValueRoundTrip ==
    /\ pc = "idle"
    /\ \E x \in InputValues : \E e \in {pbValueFromInterface(x)} :
          Finish("valueRoundTrip", [x |-> x], <<>>,
                 IF e.err # NoErr THEN Ret(FALSE, <<>>, e.msg, e.err)
                 ELSE LET d == valueFromProto(e.msg)
                      IN  Ret(TRUE, <<>>, d.val, d.err))

\* fields of every type and every combination of the four flags, and of
\* two types that are none of the five
RoundTripFields ==
    {[Name |-> n, Description |-> "d", Type |-> t, Repeated |-> rp, Required |-> rq,
      Indexed |-> ix, Unique |-> un] :
        n \in {"f", ""}, t \in Types \cup {"BOGUS", ""},
        rp \in BOOLEAN, rq \in BOOLEAN, ix \in BOOLEAN, un \in BOOLEAN}

\* a Field is converted to its wire form as Schema.Add does and, when that
\* gave a wire field, decoded as Schema.Fields does
RunFieldRoundTrip ==
    /\ pc = "idle"
    /\ \E f \in RoundTripFields : \E e \in {Field_proto(f)} :
          Finish("fieldRoundTrip", [f |-> f], <<>>,
                 IF e.err # NoErr THEN Ret(FALSE, <<>>, e.msg, e.err)
                 ELSE LET d == FieldFromProto(e.msg)
                      IN  Ret(TRUE, <<>>, d.msg, d.err))

\* a caller serialises a Request
RunRequestProto ==
    /\ pc = "idle"
    /\ \E r \in InputProtoRequests : \E pr \in {Request_proto(r)} :
          Finish("Request.proto", [r |-> r], <<>>,
                 Wrote(IF pr.panic THEN Panic(FALSE, <<>>)
                       ELSE Ret(pr.err = NoErr, <<>>, pr.msg, pr.err),
                       Request_bodyArray(r)))

\* the caller asks the MultiError an operation returned for its string
CallError ==
    /\ pc = "done"
    /\ ~ret.panic
    /\ IsMultiError(ret.err)
    /\ errStr = NoStr
    /\ errStr' = MultiError_Error(ret.err.errs)
    /\ UNCHANGED <<pc, oper, inp, replies, calls, ret, mem, defaults>>
    /\ UNCHANGED importvars

\* the caller is done with the result
Return ==
    /\ pc = "done"
    /\ pc' = "idle"
    /\ oper' = "none"
    /\ inp' = Nil
    /\ replies' = <<>>
    /\ calls' = <<>>
    /\ ret' = NoRet
    /\ mem' = <<>>
    /\ errStr' = NoStr
    /\ UNCHANGED defaults
    /\ UNCHANGED importvars

Next ==
    \/ RunAddMulti \/ RunAdd \/ RunMutateMulti \/ RunMutate
    \/ RunDeleteMulti \/ RunDelete \/ RunGetMulti \/ RunGet
    \/ RunExistsMulti \/ RunExists
    \/ RunSearch \/ RunAnalyseMulti \/ RunAnalyse \/ RunLearnMulti \/ RunLearn
    \/ RunPipelineSearch
    \/ RunSchemaFields \/ RunSchemaAdd \/ RunSchemaMutateField
    \/ RunTrainCorpus \/ RunTrainQuery \/ RunComplete
    \/ RunTrainingSetCreate \/ RunTrainingSetAddClass \/ RunTrainingSetAddRecord
    \/ RunTrainingSetClasses \/ RunTrainingSetTrain
    \/ RunModelClasses \/ RunModelClassify
    \/ RunFieldFilter \/ RunRequestProto \/ RunValueRoundTrip \/ RunFieldRoundTrip
    \/ CallError \/ Return

Spec == Init /\ [][Next]_vars

(***************************************************************************)
(* cmd/csv-import: importCSV from the making of the row queue on.  The     *)
(* reader (importCSV itself) starts the workers, reads the data rows and   *)
(* puts them on the queue; each worker takes rows off the queue, batches   *)
(* them and hands full batches to sendList.  A row is its number in the    *)
(* file.                                                                   *)
(***************************************************************************)
QueueCap == 10       \* make(chan []string, 10)
MaxWorkers == 2      \* largest -workers value
MaxBatchSize == 2    \* largest -batch-size value
MaxRows == 3         \* most data rows of a file read by two or more workers
MaxFailures == 1     \* most sendList calls that fail in one run

Flags(w, b, n, f) == [workers |-> w, batchSize |-> b, rows |-> n, readFails |-> f]

\* the runs: every worker count, batch size and file up to the bounds, and
\* files that fill the queue and overfill it by one row, read by no worker
\* and by one
InputFlags ==
    {Flags(w, b, n, f) : w \in 0..MaxWorkers, b \in 1..MaxBatchSize,
                         n \in 0..MaxRows, f \in BOOLEAN}
    \cup {Flags(w, MaxBatchSize, n, f) : w \in 0..1, n \in {QueueCap, QueueCap + 1},
                                         f \in BOOLEAN}

Workers == 1..flags.workers

ImportInit ==
    /\ LibraryInit
    /\ flags \in InputFlags
    /\ ipc = "spawn"
    /\ spawned = 0
    /\ queued = 0
    /\ ch = <<>>
    /\ closes = 0
    /\ wg = 0
    /\ wpc = [w \in 1..flags.workers |-> "none"]
    /\ batch = [w \in 1..flags.workers |-> <<>>]
    /\ sends = [w \in 1..flags.workers |-> <<>>]
    /\ failures = 0

\* for i := 0; i < *workers; i++ { wg.Add(1); go func() {...}() }
Spawn ==
    /\ ipc = "spawn"
    /\ spawned < flags.workers
    /\ spawned' = spawned + 1
    /\ wg' = wg + 1
    /\ wpc' = [wpc EXCEPT ![spawned + 1] = "recv"]
    /\ UNCHANGED <<flags, ipc, queued, ch, closes, batch, sends, failures>>
    /\ UNCHANGED libvars

\* the loop that starts the workers is over
Spawned ==
    /\ ipc = "spawn"
    /\ spawned >= flags.workers
    /\ ipc' = "read"
    /\ UNCHANGED <<flags, spawned, queued, ch, closes, wg, wpc, batch, sends, failures>>
    /\ UNCHANGED libvars

\* fields, err := cr.Read() gave a row
ReadRow ==
    /\ ipc = "read"
    /\ queued < flags.rows
    /\ ipc' = "put"
    /\ UNCHANGED <<flags, spawned, queued, ch, closes, wg, wpc, batch, sends, failures>>
    /\ UNCHANGED libvars

\* cr.Read() gave io.EOF or another error: close(ch), and the return
\* runs the deferred wg.Wait()
ReadEnd ==
    /\ ipc = "read"
    /\ queued >= flags.rows
    /\ closes' = closes + 1
    /\ ipc' = "wait"
    /\ UNCHANGED <<flags, spawned, queued, ch, wg, wpc, batch, sends, failures>>
    /\ UNCHANGED libvars

\* ch <- fields: blocks while the buffer is full
Put ==
    /\ ipc = "put"
    /\ Len(ch) < QueueCap
    /\ ch' = Append(ch, queued + 1)
    /\ queued' = queued + 1
    /\ ipc' = "read"
    /\ UNCHANGED <<flags, spawned, closes, wg, wpc, batch, sends, failures>>
    /\ UNCHANGED libvars

\* a Wait that does not wait
wg_Wait_returnsAtOnce(n) == n >= 0

\* wg.Wait() returns when the counter is zero
wg_Wait_returns(n) == n = 0

Wait ==
    /\ ipc = "wait"
    /\ wg_Wait_returns(wg)
    /\ ipc' = "returned"
    /\ UNCHANGED <<flags, spawned, queued, ch, closes, wg, wpc, batch, sends, failures>>
    /\ UNCHANGED libvars

\* a test that finds the batch full one record early
batchFull_early(b, n) == Len(b) >= n - 1

\* len(batch) == *batchSize
batchFull(b, n) == Len(b) = n

\* for fields := range ch: a row is taken off the queue and appended to
\* the batch
Receive(w) ==
    /\ wpc[w] = "recv"
    /\ ch # <<>>
    /\ ch' = Tail(ch)
    /\ batch' = [batch EXCEPT ![w] = Append(@, Head(ch))]
    /\ wpc' = [wpc EXCEPT ![w] = IF batchFull(Append(batch[w], Head(ch)), flags.batchSize)
                                 THEN "send" ELSE "recv"]
    /\ UNCHANGED <<flags, ipc, spawned, queued, closes, wg, sends, failures>>
    /\ UNCHANGED libvars

\* the range loop ends: the channel is closed and empty
Drained(w) ==
    /\ wpc[w] = "recv"
    /\ ch = <<>>
    /\ closes > 0
    /\ wpc' = [wpc EXCEPT ![w] = "final"]
    /\ UNCHANGED <<flags, ipc, spawned, queued, ch, closes, wg, batch, sends, failures>>
    /\ UNCHANGED libvars

\* sendList(list): AddMulti succeeds or fails, sendList returns either way;
\* what is recorded is the list, whether AddMulti succeeded and whether the
\* queue was closed and empty at the call
sendList(w, list, ok) ==
    /\ ok \/ failures < MaxFailures
    /\ sends' = [sends EXCEPT ![w] = Append(@, [list |-> list, ok |-> ok,
                                                drained |-> closes > 0 /\ ch = <<>>])]
    /\ failures' = IF ok THEN failures ELSE failures + 1

\* a worker that keeps the records it has sent
batch_kept(b) == b

\* batch = batch[:0]
batch_reset(b) == <<>>

\* a full batch: sendList(batch); batch = batch[:0]
SendFull(w) ==
    /\ wpc[w] = "send"
    /\ \E ok \in BOOLEAN : sendList(w, batch[w], ok)
    /\ batch' = [batch EXCEPT ![w] = batch_reset(@)]
    /\ wpc' = [wpc EXCEPT ![w] = "recv"]
    /\ UNCHANGED <<flags, ipc, spawned, queued, ch, closes, wg>>
    /\ UNCHANGED libvars

\* after the loop: if len(batch) > 0 { sendList(batch) }
SendRest(w) ==
    /\ wpc[w] = "final"
    /\ IF Len(batch[w]) > 0
       THEN \E ok \in BOOLEAN : sendList(w, batch[w], ok)
       ELSE UNCHANGED <<sends, failures>>
    /\ wpc' = [wpc EXCEPT ![w] = "exit"]
    /\ UNCHANGED <<flags, ipc, spawned, queued, ch, closes, wg, batch>>
    /\ UNCHANGED libvars

\* wg.Done()
Done(w) ==
    /\ wpc[w] = "exit"
    /\ wg' = wg - 1
    /\ wpc' = [wpc EXCEPT ![w] = "done"]
    /\ UNCHANGED <<flags, ipc, spawned, queued, ch, closes, batch, sends, failures>>
    /\ UNCHANGED libvars

Reader == Spawn \/ Spawned \/ ReadRow \/ ReadEnd \/ Put \/ Wait

Worker(w) == Receive(w) \/ Drained(w) \/ SendFull(w) \/ SendRest(w) \/ Done(w)

ImportNext ==
    \/ Spawn \/ Spawned \/ ReadRow \/ ReadEnd \/ Put \/ Wait
    \/ \E w \in Workers : Receive(w)
    \/ \E w \in Workers : Drained(w)
    \/ \E w \in Workers : SendFull(w)
    \/ \E w \in Workers : SendRest(w)
    \/ \E w \in Workers : Done(w)

ImportSpec == ImportInit /\ [][ImportNext]_vars

\* the Go scheduler runs every goroutine that can run, and every sendList
\* call returns
ImportFairSpec ==
    /\ ImportSpec
    /\ WF_vars(Reader)
    /\ \A w \in 1..MaxWorkers : WF_vars(w \in Workers /\ Worker(w))

(***************************************************************************)
(* Properties.                                                             *)
(***************************************************************************)
\* the operation name has returned (it did not panic) after one call that
\* the service answered
Answered(name) ==
    /\ pc = "done"
    /\ oper = name
    /\ ~ret.panic
    /\ Len(calls) = 1
    /\ replies[1].err = NoErr

\* the per-item statuses the service answered with
StatusOf == replies[1].msg.status

\* the reply holds one decodable item and one status per input
WellFormedReply ==
    CASE oper = "AddMulti" ->
            /\ Len(StatusOf) = Len(inp.rs)
            /\ Len(replies[1].msg.keys) = Len(inp.rs)
            /\ \A i \in 1..Len(inp.rs) :
                  \/ replies[1].msg.keys[i] = EmptyPbKey
                  \/ replies[1].msg.keys[i].value.k \in {"single", "repeated"}
      [] oper = "GetMulti" ->
            /\ Len(StatusOf) = Len(inp.ks)
            /\ Len(replies[1].msg.records) = Len(inp.ks)
            /\ \A i \in 1..Len(inp.ks) : \A f \in DOMAIN replies[1].msg.records[i] :
                  replies[1].msg.records[i][f].k \in {"single", "repeated"}
      [] oper = "ExistsMulti" -> Len(StatusOf) = Len(inp.ks)
      [] OTHER -> FALSE

\* the statuses that make item i of the operation a failed item
FailedAt(i) ==
    IF oper = "ExistsMulti" THEN StatusOf[i] \notin {"OK", "NotFound"}
    ELSE StatusOf[i] # "OK"

\* the result of item i as the reply holds it
ResultAt(i) ==
    CASE oper = "AddMulti" -> keyFromProto(replies[1].msg.keys[i]).msg
      [] oper = "GetMulti" -> recordFromProto(replies[1].msg.records[i]).msg
      [] oper = "ExistsMulti" -> StatusOf[i] = "OK"

\* C1: AddMulti, GetMulti and ExistsMulti given N inputs, answered by the
\* service with at least one failed item, return a MultiError together with
\* a non-nil result list of length N that holds, at every position that did
\* not fail, the result of that item.
C1_PartialFailureKeepsResults ==
    (/\ \E name \in {"AddMulti", "GetMulti", "ExistsMulti"} : Answered(name)
     /\ WellFormedReply
     /\ \E i \in 1..Len(StatusOf) : FailedAt(i))
        => /\ IsMultiError(ret.err)
           /\ ~ret.val.isnil
           /\ Len(ret.val.items) = Len(StatusOf)
           /\ \A i \in 1..Len(StatusOf) :
                 ~FailedAt(i) => ret.val.items[i] = ResultAt(i)

\* ExistsMulti of two keys, the second of which the service failed on
C1_ExistsMultiPartialFailure ==
    /\ Answered("ExistsMulti")
    /\ Len(inp.ks) = 2
    /\ StatusOf = <<"OK", "Internal">>

NonNil == {i \in 1..Len(ret.err.errs) : ret.err.errs[i] # NoErr}

\* C3: the string of a MultiError with k >= 1 non-nil errors is the message
\* of the first non-nil error, followed when k >= 2 by the count k - 1 of
\* the non-nil errors other than the first.
C3_ErrorCountsTheOthers ==
    (errStr # NoStr /\ NonNil # {})
        => /\ \E i \in NonNil :
                 /\ \A j \in NonNil : i <= j
                 /\ errStr.text = ErrorText(ret.err.errs[i])
           /\ Cardinality(NonNil) = 1 => errStr.tail = "none"
           /\ Cardinality(NonNil) >= 2 => errStr.count = Cardinality(NonNil) - 1

\* the string of a MultiError that holds three non-nil errors
C3_ThreeErrors ==
    /\ errStr # NoStr
    /\ Cardinality(NonNil) = 3
    /\ errStr.count = 3

\* C4: DeleteMulti fails silently on keys without a record: when the call
\* succeeds and every status is OK or NotFound, it returns nil.
C4_DeleteMultiSilentOnNotFound ==
    (/\ Answered("DeleteMulti")
     /\ \A i \in 1..Len(StatusOf) : StatusOf[i] \in {"OK", "NotFound"})
        => ret.err = NoErr

\* DeleteMulti of two keys, the second of which has no record
C4_DeleteMultiNotFound ==
    /\ Answered("DeleteMulti")
    /\ Len(inp.ks) = 2
    /\ StatusOf = <<"OK", "NotFound">>
    /\ ret.err = MultiError(<<NoErr, ErrNoSuchRecord>>)

\* C5: SetField(f, nil) is a valid mutation: Mutate and MutateMulti of a
\* record by a good key with SetField(f, nil) build their request without a
\* local error and send the service a mutation of field f.
C5_SetFieldNilUnsets ==
    (/\ pc = "done"
     /\ \/ oper = "Mutate" /\ ~inp.k.nilp /\ inp.m = <<SetField("f", GoNil)>>
        \/ /\ oper = "MutateMulti"
           /\ inp.rms = <<RecordMutation(IntKey, <<SetField("f", GoNil)>>)>>)
        => /\ ret.built
           /\ Len(calls) = 1
           /\ \E rm \in 1..Len(calls[1].req.recordMutations) :
                 \E fm \in 1..Len(calls[1].req.recordMutations[rm].fieldMutations) :
                    calls[1].req.recordMutations[rm].fieldMutations[fm].field = "f"

\* Mutate with SetField(f, nil) ended with a local error and no call
C5_SetFieldNilRejected ==
    /\ pc = "done"
    /\ oper = "Mutate"
    /\ inp.k = IntKey
    /\ inp.m = <<SetField("f", GoNil)>>
    /\ ret.err = LocalError("unsupported value")
    /\ calls = <<>>

\* the reply the operation consumed, if it called
ReplyUsed == IF replies = <<>> THEN FailedReply ELSE replies[1]

\* the Multi counterpart of the singular operation that ran, on the
\* one-element batch of its input and with the same reply
MultiOnOne ==
    CASE oper = "Add" -> AddMulti(Client, inp.ctx, <<inp.r>>, inp.ts, ReplyUsed)
      [] oper = "Get" -> GetMulti(Client, inp.ctx, <<inp.k>>, ReplyUsed)
      [] oper = "Delete" -> DeleteMulti(Client, inp.ctx, <<inp.k>>, ReplyUsed)
      [] oper = "Exists" -> ExistsMulti(Client, inp.ctx, <<inp.k>>, ReplyUsed)

\* the singular operation handed back element 0 of the Multi result list
ReturnsElementZero(items) ==
    CASE oper = "Add" -> ret.val = items[1]
      [] oper = "Get" -> ~ret.val.isnil /\ ret.val.values = items[1]
      [] oper = "Delete" -> TRUE
      [] oper = "Exists" -> ret.val.b = items[1]

Spaces(n) == [i \in 1..n |-> " "]

\* the ten operators and the wire enum each stands for
Operators ==
    {<<"=">>, <<"!", "=">>, <<">">>, <<">", "=">>, <<"<">>, <<"<", "=">>,
     <<"~">>, <<"!", "~">>, <<"^">>, <<"$">>}
OperatorEnum(o) ==
    CASE o = <<"=">> -> "EQUAL_TO"
      [] o = <<"!", "=">> -> "NOT_EQUAL_TO"
      [] o = <<">">> -> "GREATER_THAN"
      [] o = <<">", "=">> -> "GREATER_THAN_OR_EQUAL_TO"
      [] o = <<"<">> -> "LESS_THAN"
      [] o = <<"<", "=">> -> "LESS_THAN_OR_EQUAL_TO"
      [] o = <<"~">> -> "CONTAINS"
      [] o = <<"!", "~">> -> "DOES_NOT_CONTAIN"
      [] o = <<"^">> -> "HAS_PREFIX"
      [] o = <<"$">> -> "HAS_SUFFIX"

\* the string encoding of a supported scalar comparison value
Encoded(v) ==
    CASE v.t = "int" -> Single(FormatInt(v.v))
      [] v.t = "string" -> Single(v.v)
      [] v.t = "bool" -> Single(IF v.v THEN <<"t", "r", "u", "e">>
                                ELSE <<"f", "a", "l", "s", "e">>)

BuildingOps ==
    {"Query.Search", "Query.AnalyseMulti", "AddMulti", "GetMulti", "DeleteMulti",
     "ExistsMulti", "MutateMulti", "LearnMulti", "Pipeline.Search"}

\* the error of serialising the request and then the keys of the analyse path
AnalyseBuildError ==
    IF Request_proto(inp.r).err # NoErr THEN Request_proto(inp.r).err
    ELSE keys_proto(inp.ks).err

\* the local error that building the request of the operation's input ends
\* in, NoErr when it can be built
BuildError ==
    CASE oper = "AddMulti" -> records_proto(inp.rs).err
      [] oper \in {"GetMulti", "DeleteMulti", "ExistsMulti"} -> keys_proto(inp.ks).err
      [] oper = "MutateMulti" -> recordMutations_proto(inp.rms).err
      [] oper = "Query.Search" -> Request_proto(inp.r).err
      [] oper = "Query.AnalyseMulti" -> AnalyseBuildError
      [] oper = "LearnMulti" ->
            IF Len(inp.ks) # Len(inp.counts) \/ Len(inp.ks) # Len(inp.scores)
            THEN LocalError("number of keys, counts and scores do not match")
            ELSE AnalyseBuildError
      [] oper = "Pipeline.Search" -> Tracking_proto(inp.tracking).err

\* C8: when building the wire request fails locally, the operation returns
\* that error and has issued no remote call.
C8_BuildFailureIssuesNoCall ==
    (pc = "done" /\ oper \in BuildingOps /\ ~ret.panic /\ BuildError # NoErr)
        => /\ calls = <<>>
           /\ ret.err = BuildError

\* LearnMulti given two keys and one count returned without a call
C8_LearnMultiLengthMismatch ==
    /\ pc = "done"
    /\ oper = "LearnMulti"
    /\ Len(inp.ks) = 2
    /\ Len(inp.counts) = 1
    /\ ret.err = LocalError("number of keys, counts and scores do not match")
    /\ calls = <<>>

\* the methods of the transport wrappers that send a request
WrapperOps ==
    {"Query.Search", "Query.AnalyseMulti", "Query.Analyse", "Pipeline.Search",
     "Schema.Fields", "Schema.Add", "Schema.MutateField",
     "Autocomplete.TrainCorpus", "Autocomplete.TrainQuery", "Autocomplete.Complete",
     "TrainingSet.Create", "TrainingSet.AddClass", "TrainingSet.AddRecord",
     "TrainingSet.Classes", "TrainingSet.Train", "Model.Classify"}

\* the wire request of the wrapper method's input can be built
RequestBuilt ==
    CASE oper \in {"Query.Search", "Query.AnalyseMulti", "Pipeline.Search"} ->
            BuildError = NoErr /\ (oper # "Pipeline.Search" => ~Request_proto(inp.r).panic)
      [] oper = "Query.Analyse" ->
            /\ ~Request_proto(inp.r).panic
            /\ Request_proto(inp.r).err = NoErr
            /\ keys_proto(<<inp.k>>).err = NoErr
      [] oper = "Schema.Add" -> fields_proto(inp.fs).err = NoErr
      [] oper = "Schema.MutateField" -> mutations_proto(inp.muts).err = NoErr
      [] OTHER -> TRUE

C10_CallsCarryIdentity ==
    \A i \in 1..Len(calls) :
        /\ calls[i].ctx.hasmd
        /\ calls[i].ctx.project = Client.Project
        /\ calls[i].ctx.collection = Client.Collection

\* Schema.MutateField called with a plain context made its call without
\* project and collection
C10_MutateFieldWithoutIdentity ==
    /\ pc = "done"
    /\ oper = "Schema.MutateField"
    /\ inp.ctx = Background
    /\ Len(calls) = 1
    /\ ~calls[1].ctx.hasmd

\* a Request was serialised by the caller
Serialised == pc = "done" /\ oper = "Request.proto"

\* C11: serialising a Request ends in a complete wire message or in an error
\* with no message; it never crashes, whatever public constructors and
\* struct fields the Request was built with.
C11_SerialisationNeverCrashes ==
    Serialised
        => /\ ~ret.panic
           /\ ret.err = NoErr => ret.val # Nil
           /\ ret.err # NoErr => ret.val = Nil

\* a Request whose only aggregate is a bucket aggregate of a Bucket without
\* a Filter made serialisation panic
C11_BucketWithoutFilterCrashes ==
    /\ Serialised
    /\ inp.r.Aggregates =
          Map(<<"by_price">>,
              "by_price" :> BucketAggregate(<<Bucket("all", NilFilter)>>))
    /\ ret.panic

\* the filter f and every filter below it
RECURSIVE Nodes(_)
Nodes(f) ==
    IF f.kind = "comb"
    THEN {f} \cup UNION {Nodes(f.filters[i]) : i \in 1..Len(f.filters)}
    ELSE {f}

\* the filters a field boost holds
BoostFilters(b) == IF b.kind = "filter" THEN Nodes(b.filter) ELSE {}

\* the filters an aggregate holds
AggregateFilters(a) ==
    IF a.kind = "bucket"
    THEN UNION {Nodes(a.buckets[i].Filter) : i \in 1..Len(a.buckets)}
    ELSE {}

\* every filter of the Request r, wherever it is held
RequestFilters(r) ==
    Nodes(r.Filter)
    \cup UNION {BoostFilters(r.IndexQuery.FieldBoosts.items[i]) :
                   i \in 1..Len(r.IndexQuery.FieldBoosts.items)}
    \cup UNION {BoostFilters(r.FeatureQuery.FieldBoosts.items[i].boost) :
                   i \in 1..Len(r.FeatureQuery.FieldBoosts.items)}
    \cup UNION {AggregateFilters(r.Aggregates.items[k]) : k \in DOMAIN r.Aggregates.items}

\* r holds a field filter whose operator is not one of the ten
InvalidOperator(r) ==
    \E f \in RequestFilters(r) : f.kind = "field" /\ f.op \notin Operators

\* r holds an enum value that is not one of its type's constants
InvalidEnum(r) ==
    \/ r.Tracking.Type \notin {TrackingNone, TrackingClick, TrackingPosNeg}
    \/ \E f \in RequestFilters(r) :
          \/ f.kind = "geo" /\ f.region \notin {GeoFilterInside, GeoFilterOutside}
          \/ f.kind = "comb" /\ f.op \notin CombOps

\* r holds a field filter whose comparison value is of no supported type
UnsupportedValue(r) ==
    \E f \in RequestFilters(r) :
        /\ f.kind = "field"
        /\ f.value.t \notin ScalarTypes \cup {"time.Time", "[]string", "[]int", "[]int64"}

RequestOps ==
    {"Request.proto", "Query.Search", "Query.AnalyseMulti", "Query.Analyse",
     "LearnMulti", "Learn"}

\* C13: serialising a Request has no effect the caller can observe: after
\* the call every element of the backing array of IndexQuery.Body, the
\* spare capacity beyond the slice's length included, is what it was.
C13_SerialisationLeavesRequestAlone ==
    (pc = "done" /\ oper \in RequestOps) => mem = inp.r.IndexQuery.Body.arr

\* a Search with Text set and a Body of length one cut from an array of two
\* wrote the text over the second element of the caller's array
C13_SearchWritesSpareCapacity ==
    /\ pc = "done"
    /\ oper = "Query.Search"
    /\ inp.r.IndexQuery.Text = "hello"
    /\ inp.r.IndexQuery.Body = Slice(<<BodyA, BodyB>>, 1)
    /\ mem = <<BodyA, Body("hello", 1)>>

ListTypes == {"[]string", "[]int", "[]int64"}

\* C14: encoding a value and decoding it back gives the string-typed
\* equivalent: a scalar comes back as the one string of its textual form, a
\* timestamp as the string of its Unix seconds, a []string, []int or []int64
\* as a list of strings of the same length in the same order; a value of
\* any other shape makes encoding return a type error and no value.
C14_RoundTripGivesStrings ==
    (pc = "done" /\ oper = "valueRoundTrip") =>
        LET x == inp.x
        IN  CASE x.t \in ScalarTypes ->
                    /\ ret.err = NoErr
                    /\ ret.val = GoString(Sprint(x))
              [] x.t = "time.Time" ->
                    /\ ret.err = NoErr
                    /\ ret.val = GoString(FormatInt(x.v))
              [] x.t \in ListTypes ->
                    /\ ret.err = NoErr
                    /\ ret.val.t = "[]string"
                    /\ Len(ret.val.v) = Len(x.v)
                    /\ \A i \in 1..Len(x.v) :
                          ret.val.v[i] = IF x.t = "[]string" THEN x.v[i]
                                         ELSE FormatInt(x.v[i])
              [] OTHER ->
                    /\ ret.err = LocalError("unsupported value")
                    /\ ~ret.built
                    /\ ret.val = Nil

\* a list of three integers came back as its three decimal strings in order
C14_IntListRoundTrip ==
    /\ pc = "done"
    /\ oper = "valueRoundTrip"
    /\ inp.x = GoInts(<<12, 0 - 3, 7>>)
    /\ ret.val = GoStrings(<<<<"1", "2">>, <<"-", "3">>, <<"7">>>>)

\* a timestamp came back as the string of its Unix seconds
C14_TimeRoundTrip ==
    /\ pc = "done"
    /\ oper = "valueRoundTrip"
    /\ inp.x = GoTime(5)
    /\ ret.val = GoString(<<"5">>)

\* the kinds of value the record data model lists: a string, a number, a
\* boolean, a timestamp, or a list of one of those kinds
RecordValueTypes ==
    ScalarTypes \cup {"time.Time"} \cup ListTypes
    \cup {"[]float64", "[]bool", "[]time.Time"}

\* C15: a record whose every field value is a string, a number, a boolean,
\* a timestamp or a homogeneous list of one of those kinds (a list of
\* floats, of booleans or of timestamps included) serialises, and AddMulti
\* sends it.
C15_ListedValuesAreSent ==
    (/\ pc = "done"
     /\ oper = "AddMulti"
     /\ \A i \in 1..Len(inp.rs) : \A f \in DOMAIN inp.rs[i] :
           inp.rs[i][f].t \in RecordValueTypes)
    => /\ ret.built
       /\ Len(calls) = 1

\* AddMulti of one record holding a list of booleans returned the
\* unsupported-value error and sent nothing
C15_BoolListRejected ==
    /\ pc = "done"
    /\ oper = "AddMulti"
    /\ inp.rs = <<FlagsRecord>>
    /\ ret.err = LocalError("unsupported value")
    /\ ~ret.built
    /\ calls = <<>>

\* the wire operator of a combinator operator
CombOperatorName(o) ==
    CASE o = combFilterOpAll -> "ALL"
      [] o = combFilterOpAny -> "ANY"
      [] o = combFilterOpOne -> "ONE"
      [] o = combFilterOpNone -> "NONE"

\* the filter f is a tree of the four combinators over field and geo leaves
IsFilterTree(f) ==
    /\ f.kind = "comb"
    /\ \A n \in Nodes(f) :
          /\ n.kind \in {"comb", "field", "geo"}
          /\ n.kind = "comb" => n.op \in CombOps

\* the wire filter m has the shape of the filter f: the matching operator at
\* every combinator, as many children, each of the shape of the child at
\* the same position, and at a leaf the leaf's own message
RECURSIVE SameShape(_, _)
SameShape(f, m) ==
    IF f.kind = "comb"
    THEN /\ m.kind = "comb"
         /\ m.operator = CombOperatorName(f.op)
         /\ Len(m.filters) = Len(f.filters)
         /\ \A i \in 1..Len(f.filters) : SameShape(f.filters[i], m.filters[i])
    ELSE /\ m.kind = f.kind
         /\ m = (IF f.kind = "field" THEN fieldFilter_proto(f) ELSE geoFilter_proto(f)).msg

\* the leaves of the filter f in the caller's order
RECURSIVE LeavesOf(_)
LeavesOf(f) ==
    IF f.kind # "comb" THEN <<f>>
    ELSE IF f.filters = <<>> THEN <<>>
    ELSE LeavesOf(f.filters[1])
         \o LeavesOf([f EXCEPT !.filters = Tail(f.filters)])

\* the errors of the leaves of f that fail to serialise, in the caller's order
LeafErrors(f) ==
    LET errs == [i \in 1..Len(LeavesOf(f)) |->
                    (IF LeavesOf(f)[i].kind = "field"
                     THEN fieldFilter_proto(LeavesOf(f)[i])
                     ELSE geoFilter_proto(LeavesOf(f)[i])).err]
    IN  SelectSeq(errs, LAMBDA e : e # NoErr)

\* C16: a tree of combinator filters serialises recursively without
\* flattening: the wire message is a tree of the same shape, with the
\* matching operator at every combinator and the children in the caller's
\* order; when a descendant fails to serialise, serialisation returns that
\* descendant's error (the first in the caller's order) and no message.
C16_TreesSerialiseRecursively ==
    (/\ pc = "done"
     /\ oper = "Request.proto"
     /\ IsFilterTree(inp.r.Filter)
     /\ inp.r = [ZeroRequest EXCEPT !.Filter = inp.r.Filter])
    => /\ ~ret.panic
       /\ IF LeafErrors(inp.r.Filter) = <<>>
          THEN /\ ret.err = NoErr
               /\ SameShape(inp.r.Filter, ret.val.searchRequest.filter)
          ELSE /\ ret.err = LeafErrors(inp.r.Filter)[1]
               /\ ret.val = Nil

\* ALL holding a field filter and an ANY of two field filters came out as
\* ALL of the field filter's message and an ANY of the two messages
C16_NestedAnyInsideAll ==
    /\ pc = "done"
    /\ oper = "Request.proto"
    /\ inp.r.Filter = AllFilters(<<GoodFieldFilter,
                                   AnyFilter(<<GoodFieldFilter, OtherFieldFilter>>)>>)
    /\ ret.val.searchRequest.filter =
          [kind |-> "comb", operator |-> "ALL",
           filters |-> <<fieldFilter_proto(GoodFieldFilter).msg,
                         [kind |-> "comb", operator |-> "ANY",
                          filters |-> <<fieldFilter_proto(GoodFieldFilter).msg,
                                        fieldFilter_proto(OtherFieldFilter).msg>>]>>]

\* a tree whose innermost leaf has an invalid operator gave that error and
\* no message
C16_DeepFailureSurfaces ==
    /\ pc = "done"
    /\ oper = "Request.proto"
    /\ inp.r.Filter = NoneOfFilters(<<GoodFieldFilter,
                                      OneOfFilters(<<OtherFieldFilter, BadOpFieldFilter>>)>>)
    /\ ret.err = LocalError("invalid field filter operator")
    /\ ret.val = Nil

\* the aggregates of the response a Search decoded
ResponseAggregates == replies[1].msg.searchResponse.aggregates

\* a Search that decoded a response holding an aggregate map
SearchDecodedAggregates ==
    /\ Answered("Query.Search")
    /\ ret.err = NoErr
    /\ replies[1].msg.searchResponse # Nil
    /\ ResponseAggregates # Nil

\* serialising Request.Aggregates gives a wire map with the same key set,
\* each key mapped to the wire form of its aggregate
C17_WireMapKeepsKeys ==
    (/\ Serialised
     /\ ~ret.panic
     /\ ret.err = NoErr
     /\ ~inp.r.Aggregates.isnil)
    => /\ DOMAIN ret.val.searchRequest.aggregates = DOMAIN inp.r.Aggregates.items
       /\ \A k \in DOMAIN inp.r.Aggregates.items :
             ret.val.searchRequest.aggregates[k] =
                 Aggregate_proto(inp.r.Aggregates.items[k]).msg

\* C17: aggregates stay addressable by the caller's key: the wire map of
\* Request.Aggregates has the same key set, each key mapped to the wire form
\* of its aggregate, and the result map decoded from a response holds an
\* entry under every key present in the response.
C17_AggregatesAddressableByKey ==
    /\ C17_WireMapKeepsKeys
    /\ SearchDecodedAggregates =>
          \A k \in DOMAIN ResponseAggregates : k \in DOMAIN ret.val.Aggregates

\* a Search decoded a response whose "total_count" aggregate has no member
\* set: the result map has no entry under "total_count"
C17_UnsetAggregateDropped ==
    /\ SearchDecodedAggregates
    /\ "total_count" \in DOMAIN ResponseAggregates
    /\ ResponseAggregates["total_count"].kind = "unset"
    /\ DOMAIN ret.val.Aggregates = {"by_price"}

\* LearnMulti whose term analysis was answered with one status per key
LearnAnalysed ==
    /\ pc = "done"
    /\ oper = "LearnMulti"
    /\ ~ret.panic
    /\ Len(calls) >= 1
    /\ replies[1].err = NoErr
    /\ Len(replies[1].msg.status) = Len(inp.ks)
    /\ Len(replies[1].msg.terms) = Len(inp.ks)

\* the keys whose term analysis failed
AnalyseFailed == {i \in 1..Len(inp.ks) : replies[1].msg.status[i] # "OK"}

\* C18: LearnMulti follows the partial-failure contract of the other Multi
\* operations: when the term analysis fails for some of N keys and succeeds
\* for the others, the feedback tuples of the others are still submitted
\* (Score.Increment is called with them) and the failure is reported as a
\* MultiError holding the error at the failed key's index.
C18_LearnMultiSubmitsTheRest ==
    (/\ LearnAnalysed
     /\ AnalyseFailed # {}
     /\ AnalyseFailed # 1..Len(inp.ks))
    => /\ Len(calls) = 2
       /\ calls[2].method = "Score.Increment"
       /\ Len(calls[2].req.keysScores) = Len(inp.ks) - Cardinality(AnalyseFailed)
       /\ IsMultiError(ret.err)
       /\ \A i \in AnalyseFailed : ret.err.errs[i] # NoErr

\* the analysis of two keys answered OK and NotFound: LearnMulti returned
\* the MultiError of the analysis and made no second call
C18_LearnMultiStopsAfterAnalyse ==
    /\ LearnAnalysed
    /\ Len(inp.ks) = 2
    /\ replies[1].msg.status = <<"OK", "NotFound">>
    /\ Len(calls) = 1
    /\ calls[1].method = "Query.Analyse"
    /\ ret.err = MultiError(<<NoErr, ErrNoSuchRecord>>)

\* the mutations of a MutateField call that all serialise
MutationsSerialise ==
    \A i \in 1..Len(inp.muts) : Mutation_proto(inp.muts[i]).err = NoErr

ExistsFollowsReply ==
    (pc = "done" /\ oper = "Exists" /\ Len(calls) = 1) =>
        IF replies[1].err # NoErr
        THEN ~ret.panic /\ ret.val = BoolVal(FALSE) /\ ret.err # NoErr
        ELSE Len(StatusOf) = 1 =>
                /\ ~ret.panic
                /\ CASE StatusOf[1] = "OK" ->
                            ret.val = BoolVal(TRUE) /\ ret.err = NoErr
                     [] StatusOf[1] = "NotFound" ->
                            ret.val = BoolVal(FALSE) /\ ret.err = NoErr
                     [] OTHER ->
                            ret.val = BoolVal(FALSE) /\ ret.err = GrpcError(StatusOf[1])

\* ExistsMulti answered with one status per key, each OK or NotFound
ExistsMultiFollowsStatuses ==
    (/\ Answered("ExistsMulti")
     /\ Len(StatusOf) = Len(inp.ks)
     /\ \A i \in 1..Len(StatusOf) : StatusOf[i] \in {"OK", "NotFound"})
    => /\ ret.err = NoErr
       /\ ~ret.val.isnil
       /\ Len(ret.val.items) = Len(inp.ks)
       /\ \A i \in 1..Len(inp.ks) : ret.val.items[i] = (StatusOf[i] = "OK")

\* C20: Exists returns true if and only if the record exists: status OK
\* gives (true, nil), status NotFound gives (false, nil) and not
\* ErrNoSuchRecord, any other status or a failed remote call gives false
\* with a non-nil error; ExistsMulti with no status other than OK and
\* NotFound returns one boolean per key in key order and a nil error.
C20_ExistsReportsPresence ==
    /\ ExistsFollowsReply
    /\ ExistsMultiFollowsStatuses

\* Exists of a key the service answered NotFound for returned (false, nil)
C20_AbsentRecordIsFalseNotError ==
    /\ Answered("Exists")
    /\ StatusOf = <<"NotFound">>
    /\ ret.val = BoolVal(FALSE)
    /\ ret.err = NoErr

\* ExistsMulti of two keys answered NotFound and OK returned false, true
C20_PresencePerKeyInOrder ==
    /\ Answered("ExistsMulti")
    /\ Len(inp.ks) = 2
    /\ StatusOf = <<"NotFound", "OK">>
    /\ ret.val = List(<<FALSE, TRUE>>)
    /\ ret.err = NoErr

\* C21: AddMulti called with no transforms sends exactly the transforms of
\* DefaultAddTransforms, in order; called with one or more transforms it
\* sends exactly the caller's transforms, in order, and none of the
\* defaults; DefaultAddTransforms holds the same elements after every call
\* of every sequence of calls.
C21_DefaultsSentAndKept ==
    /\ defaults = DefaultAddTransforms
    /\ (pc = "done" /\ oper = "AddMulti" /\ Len(calls) = 1) =>
          calls[1].req.transforms =
              IF Len(inp.ts) = 0 THEN DefaultAddTransforms ELSE inp.ts

\* an AddMulti with no transforms sent the one default transform
C21_NoTransformsSendsDefault ==
    /\ pc = "done"
    /\ oper = "AddMulti"
    /\ inp.ts = <<>>
    /\ Len(calls) = 1
    /\ calls[1].req.transforms = <<"split-stop-stem-indexed-fields">>
    /\ defaults = <<"split-stop-stem-indexed-fields">>

\* an AddMulti with two transforms sent those two and no default
C21_OwnTransformsSendNoDefault ==
    /\ pc = "done"
    /\ oper = "AddMulti"
    /\ inp.ts = <<StopStemTransform, SplitIndexedFieldsTransform>>
    /\ Len(calls) = 1
    /\ calls[1].req.transforms = <<"stop-stem", "split-indexed-fields">>

\* a Request whose only field boost is an interval boost was serialised
IntervalSerialised ==
    /\ Serialised
    /\ ~inp.r.IndexQuery.FieldBoosts.isnil
    /\ Len(inp.r.IndexQuery.FieldBoosts.items) = 1
    /\ inp.r.IndexQuery.FieldBoosts.items[1].kind = "interval"

\* the interval boost given, and the one on the wire
IntervalGiven == inp.r.IndexQuery.FieldBoosts.items[1]
IntervalSent == ret.val.searchRequest.indexQuery.fieldBoosts[1]

\* C22: serialising IntervalFieldBoost(field, points...) carries the exact
\* point list: the wire message names the same field and holds exactly the
\* caller's points, same count, same order, same point and value for each.
C22_IntervalPointsCarriedExactly ==
    IntervalSerialised =>
        /\ ~ret.panic
        /\ ret.err = NoErr
        /\ Len(ret.val.searchRequest.indexQuery.fieldBoosts) = 1
        /\ IntervalSent.kind = "interval"
        /\ IntervalSent.field = IntervalGiven.field
        /\ Len(IntervalSent.points) = Len(IntervalGiven.values)
        /\ \A i \in 1..Len(IntervalGiven.values) :
              /\ IntervalSent.points[i].point = IntervalGiven.values[i].Point
              /\ IntervalSent.points[i].value = IntervalGiven.values[i].Value

\* three points given out of order, one of them twice, went out as given
C22_UnsortedPointsKept ==
    /\ IntervalSerialised
    /\ IntervalGiven.values = <<IntervalPoint(10, 4), IntervalPoint(0, 0), IntervalPoint(10, 4)>>
    /\ IntervalSent.points = <<[point |-> 10, value |-> 4], [point |-> 0, value |-> 0],
                               [point |-> 10, value |-> 4]>>

\* the call of LearnMulti to Score.Increment, when it made one
IncrementCalls == SelectSeq(calls, LAMBDA c : c.method = "Score.Increment")

\* C27: LearnMulti issues the Analyse call before the Increment call, issues
\* Increment at most once and only after Analyse has returned with no
\* error, and the i-th tuple it submits carries key i, the terms Analyse
\* returned for key i, counts[i] and scores[i], for every i below the
\* number of keys.
C27_LearnAnalysesThenIncrements ==
    (pc = "done" /\ oper = "LearnMulti") =>
        /\ Len(IncrementCalls) <= 1
        /\ Len(calls) <= 2
        /\ Len(calls) >= 1 => calls[1].method = "Query.Analyse"
        /\ Len(calls) = 2 =>
              /\ calls[2].method = "Score.Increment"
              /\ replies[1].err = NoErr
              /\ \A i \in 1..Len(replies[1].msg.status) : replies[1].msg.status[i] = "OK"
              /\ Len(calls[2].req.keysScores) = Len(inp.ks)
              /\ \A i \in 1..Len(inp.ks) :
                    /\ calls[2].req.keysScores[i].key = Key_proto(inp.ks[i]).msg
                    /\ calls[2].req.keysScores[i].terms = replies[1].msg.terms[i]
                    /\ calls[2].req.keysScores[i].count = inp.counts[i]
                    /\ calls[2].req.keysScores[i].score = inp.scores[i]

\* LearnMulti of two keys submitted two tuples, the second with the second
\* key, the terms of the second key, the second count and the second score
C27_TwoTuplesSubmitted ==
    /\ pc = "done"
    /\ oper = "LearnMulti"
    /\ inp.ks = <<IntKey, StringKey>>
    /\ Len(calls) = 2
    /\ calls[2].req.keysScores[2] =
          [key |-> Key_proto(StringKey).msg, terms |-> TermsAt(2),
           count |-> 12, score |-> 22]
    /\ calls[2].req.keysScores[1].terms = TermsAt(1)

\* a Search that decoded the response of the service
SearchDecoded ==
    /\ Answered("Query.Search")
    /\ ret.err = NoErr
    /\ replies[1].msg.searchResponse # Nil

ResponseResults == replies[1].msg.searchResponse.results
ResponseTokens == replies[1].msg.tokens

\* C28: decoding a search response keeps results and tokens aligned by
\* position: Results holds the response's results in the same number and
\* order, result i carries the token at position i of the token list (the
\* click token, or the pos and neg tokens) for every i below the length of
\* the token list, and every result beyond that length carries no tokens.
C28_TokensAlignedWithResults ==
    SearchDecoded =>
        /\ Len(ret.val.Results) = Len(ResponseResults)
        /\ \A i \in 1..Len(ResponseResults) :
              /\ ret.val.Results[i].Score = ResponseResults[i].score
              /\ ret.val.Results[i].Values = recordFromProto(ResponseResults[i].values).msg
              /\ IF i > Len(ResponseTokens)
                 THEN ret.val.Results[i].Tokens = NilTokens
                 ELSE CASE ResponseTokens[i].kind = "click" ->
                               ret.val.Results[i].Tokens =
                                   [isnil |-> FALSE, click |-> ResponseTokens[i].token]
                        [] ResponseTokens[i].kind = "posneg" ->
                               ret.val.Results[i].Tokens =
                                   [isnil |-> FALSE, pos |-> ResponseTokens[i].pos,
                                    neg |-> ResponseTokens[i].neg]
                        [] OTHER -> ret.val.Results[i].Tokens = NilTokens

\* two results with the tokens posneg then click: the first result holds
\* the pos and neg tokens, the second the click token
C28_SecondResultSecondToken ==
    /\ SearchDecoded
    /\ Len(ResponseResults) = 2
    /\ ResponseTokens = <<[kind |-> "posneg", pos |-> "p", neg |-> "n"],
                          [kind |-> "click", token |-> "tok"]>>
    /\ ret.val.Results[1].Tokens = [isnil |-> FALSE, pos |-> "p", neg |-> "n"]
    /\ ret.val.Results[2].Tokens = [isnil |-> FALSE, click |-> "tok"]

\* two results and one token: the second result holds no tokens
C28_ResultBeyondTokensHasNone ==
    /\ SearchDecoded
    /\ Len(ResponseResults) = 2
    /\ Len(ResponseTokens) = 1
    /\ ResponseTokens[1].kind = "click"
    /\ ret.val.Results[1].Tokens = [isnil |-> FALSE, click |-> "tok"]
    /\ ret.val.Results[2].Tokens = NilTokens

\* Add, Get or Exists whose one remote call the service answered
SingularAnswered ==
    /\ pc = "done"
    /\ oper \in {"Add", "Get", "Exists"}
    /\ Len(calls) = 1
    /\ replies[1].err = NoErr

\* C29: for every response the service can return to a one-element batch
\* (a key, record or status list that is empty or longer than one, and an
\* empty key with status OK included), Add, Get and Exists do not crash,
\* Add never returns a nil Key together with a nil error, and Get never
\* returns a nil Record together with a nil error.
C29_SingularSurvivesAnyResponse ==
    SingularAnswered =>
        /\ ~ret.panic
        /\ oper = "Add" => ~(ret.val = NilKey /\ ret.err = NoErr)
        /\ oper = "Get" => ~(ret.val = NilRecord /\ ret.err = NoErr)

\* Add answered with no key and no status crashed on ks[0]
C29_AddCrashesOnEmptyReply ==
    /\ SingularAnswered
    /\ oper = "Add"
    /\ replies[1].msg.keys = <<>>
    /\ replies[1].msg.status = <<>>
    /\ ret.panic

\* Add answered with one empty key and status OK returned (nil, nil)
C29_AddReturnsNilKeyNilError ==
    /\ SingularAnswered
    /\ oper = "Add"
    /\ replies[1].msg.keys = <<EmptyPbKey>>
    /\ replies[1].msg.status = <<"OK">>
    /\ ~ret.panic
    /\ ret.val = NilKey
    /\ ret.err = NoErr

\* Get answered with statuses OK and NotFound returned (nil, nil): the
\* error at index 0 of the MultiError is nil
C29_GetReturnsNilRecordNilError ==
    /\ SingularAnswered
    /\ oper = "Get"
    /\ replies[1].msg.status = <<"OK", "NotFound">>
    /\ ~ret.panic
    /\ ret.val = NilRecord
    /\ ret.err = NoErr

\* Exists answered with no status crashed on resp[0]
C29_ExistsCrashesOnEmptyReply ==
    /\ SingularAnswered
    /\ oper = "Exists"
    /\ replies[1].msg.status = <<>>
    /\ ret.panic

WireTypes == {Field_STRING, Field_INTEGER, Field_FLOAT, Field_BOOLEAN, Field_TIMESTAMP}

\* a Field converted to the wire and back is the Field; a type that is none
\* of the five gives an error and no Field
FieldRoundTrips ==
    (pc = "done" /\ oper = "fieldRoundTrip") =>
        IF inp.f.Type \in Types
        THEN ret.err = NoErr /\ ret.val = inp.f
        ELSE ret.err = LocalError("unknown type") /\ ret.val = Nil /\ ~ret.built

\* Schema.Add sends no field of a type outside the five, and STRING on the
\* wire only for a STRING field
UnknownTypeNeverSent ==
    (pc = "done" /\ oper = "Schema.Add") =>
        /\ (\E i \in 1..Len(inp.fs) : inp.fs[i].Type \notin Types) =>
              calls = <<>> /\ ret.err = LocalError("unknown type")
        /\ Len(calls) = 1 =>
              \A i \in 1..Len(inp.fs) :
                  calls[1].req.fields[i].type = Field_STRING <=> inp.fs[i].Type = TypeString

\* Schema.Fields returns no field for a response holding a wire type
\* outside the five
UnknownTypeNeverReturned ==
    (/\ Answered("Schema.Fields")
     /\ \E i \in 1..Len(replies[1].msg.fields) :
           replies[1].msg.fields[i].type \notin WireTypes)
    => ret.err = LocalError("unknown type") /\ ret.val = NilList

\* C30: a schema field survives the snapshot and restore round trip:
\* Field.proto followed by the decoding of Schema.Fields gives a Field equal
\* to the original in name, description, type and the four flags, for each
\* of the five types and every flag combination; a type outside the five
\* makes the conversion return an error in either direction and is never
\* sent or returned as STRING.
C30_FieldSurvivesRoundTrip ==
    /\ FieldRoundTrips
    /\ UnknownTypeNeverSent
    /\ UnknownTypeNeverReturned

\* a repeated, indexed TIMESTAMP field came back as it was
C30_TimestampFieldRestored ==
    /\ pc = "done"
    /\ oper = "fieldRoundTrip"
    /\ inp.f.Type = TypeTimestamp
    /\ inp.f.Repeated /\ inp.f.Indexed /\ ~inp.f.Required /\ ~inp.f.Unique
    /\ ret.val = inp.f
    /\ ret.val.Type = "TIMESTAMP"

\* Schema.Fields answered with a field of an unknown wire type returned the
\* error and no field
C30_UnknownWireTypeRejected ==
    /\ Answered("Schema.Fields")
    /\ Len(replies[1].msg.fields) = 1
    /\ replies[1].msg.fields[1].type = "UNKNOWN"
    /\ ret.err = LocalError("unknown type")
    /\ ret.val = NilList

(***************************************************************************)
(* cmd/csv-import                                                          *)
(***************************************************************************)
\* the places where row r stands in the lists worker w passed to sendList
SubmissionsBy(w, r) ==
    UNION {{<<w, i, j>> : j \in {k \in DOMAIN sends[w][i].list : sends[w][i].list[k] = r}} :
              i \in DOMAIN sends[w]}

Submissions(r) == UNION {SubmissionsBy(w, r) : w \in Workers}

\* the workers that took row r off the queue
Receivers(r) ==
    {w \in Workers : \/ \E j \in DOMAIN batch[w] : batch[w][j] = r
                     \/ SubmissionsBy(w, r) # {}}

\* C23: with one worker or more, in every interleaving a data row read from
\* the file is taken off the queue by one worker only and stands in one list
\* passed to sendList only, whether that sendList call failed or not, and when
\* importCSV has returned every row read stands in exactly one such list
C23_EachRowSubmittedOnce ==
    \A r \in 1..flags.rows :
        /\ Cardinality(Submissions(r)) <= 1
        /\ Cardinality(Receivers(r)) <= 1
        /\ (flags.workers >= 1 /\ ipc = "returned") =>
               /\ Cardinality(Submissions(r)) = 1
               /\ Cardinality(Receivers(r)) = 1

\* two workers have shared three rows, and one of the lists was refused
C23_TwoWorkersOneFailure ==
    /\ ipc = "returned"
    /\ flags.workers = 2
    /\ flags.rows = 3
    /\ \A w \in Workers : Len(sends[w]) >= 1
    /\ \E w \in Workers : \E i \in DOMAIN sends[w] :
          ~sends[w][i].ok /\ i < Len(sends[w])

\* C24: every list passed to sendList holds at least one record and at most
\* -batch-size records, and a worker passes a list of fewer than -batch-size
\* records once only: it is the last list it passes, the worker has left its
\* loop, and the queue was closed and empty at the call
C24_ListsWithinBatchSize ==
    \A w \in Workers : \A i \in DOMAIN sends[w] :
        /\ Len(sends[w][i].list) >= 1
        /\ Len(sends[w][i].list) <= flags.batchSize
        /\ Len(sends[w][i].list) < flags.batchSize =>
               /\ i = Len(sends[w])
               /\ wpc[w] \in {"exit", "done"}
               /\ sends[w][i].drained

\* a worker has passed a full list and then the rest, one record
C24_FullListThenRest ==
    \E w \in Workers :
        /\ flags.batchSize = 2
        /\ Len(sends[w]) = 2
        /\ Len(sends[w][1].list) = 2
        /\ Len(sends[w][2].list) = 1

\* C25: importCSV returns only when the queue has been closed, once, and
\* every worker has passed the rest of its batch to sendList and called
\* wg.Done, whether reading ended with the end of the file or with an error;
\* the queue is never closed twice
C25_ReturnsAfterCloseAndWorkers ==
    /\ closes <= 1
    /\ ipc = "returned" =>
           /\ closes = 1
           /\ wg = 0
           /\ \A w \in Workers :
                  /\ wpc[w] = "done"
                  /\ batch[w] # <<>> =>
                         /\ sends[w] # <<>>
                         /\ sends[w][Len(sends[w])].list = batch[w]

\* reading failed, and importCSV returned after two workers each passed the
\* rest of their batch
C25_ReturnedAfterReadError ==
    /\ ipc = "returned"
    /\ flags.readFails
    /\ flags.workers = 2
    /\ \A w \in Workers : batch[w] # <<>> /\ Len(batch[w]) < flags.batchSize

\* the file ended, and importCSV returned after its worker passed the rest
C25_ReturnedAfterEndOfFile ==
    /\ ipc = "returned"
    /\ ~flags.readFails
    /\ \E w \in Workers : batch[w] # <<>> /\ Len(batch[w]) < flags.batchSize

\* C26: for every file and every -workers value, zero included, with every
\* goroutine that can run running and every sendList call returning,
\* importCSV returns in the end
C26_ImportEventuallyReturns == <>(ipc = "returned")

\* with one worker or more importCSV returns in the end
C26_ReturnsWithWorkers == (flags.workers >= 1) => <>(ipc = "returned")

\* with no worker the queue is full and the reader stands at ch <- fields,
\* which no goroutine can ever unblock
C26_ReaderBlockedWithoutWorkers ==
    /\ flags.workers = 0
    /\ ipc = "put"
    /\ Len(ch) = QueueCap

\* with no worker and a file that fits the queue importCSV returns, and the
\* rows it read are still in the queue
C26_RowsLeftInQueue ==
    /\ flags.workers = 0
    /\ ipc = "returned"
    /\ Len(ch) = flags.rows
    /\ flags.rows > 0

====
